---- MODULE Spec2Model ----
(***************************************************************************)
(* A state-machine model of pyrameter's experiment orchestrator            *)
(* (pyrameter/optimizer.py, FMin), its SearchSpaces                        *)
(* (pyrameter/searchspace.py) and its Trials (pyrameter/trial.py).         *)
(*                                                                         *)
(* Python objects live in two heaps.  trialObjs[i] is the Trial whose id   *)
(* is i - 1 (Trial ids come from one class-wide counter, so an id names    *)
(* exactly one Trial object).  spaceObjs[r] is a SearchSpace object; its   *)
(* id field is NOT its identity, because SearchSpace.from_json overwrites  *)
(* the id of a freshly constructed object with the persisted one.          *)
(* Python's None is the empty tuple and a non-None value v is <<v>>.       *)
(***************************************************************************)
EXTENDS Integers, Sequences, FiniteSets, TLC

VARIABLES spaceObjs, trialObjs, searchspaces, active, trials, max_evals,
          did_sort, backend, saved, spec, compiled, splits,
          method, threads

vars == <<spaceObjs, trialObjs, searchspaces, active, trials, max_evals,
          did_sort, backend, saved, spec, compiled, splits,
          method, threads>>

(***************************************************************************)
(* Bounds of the model.                                                    *)
(***************************************************************************)
\* Heap size: SearchSpace objects plus Trial objects.
MaxObjects == 4

\* Trial objects, generated or loaded.
MaxTrials == 2

\* Registrations over all Trials.
MaxSubmissions == 2

MaxEvals == 2

MaxObjective == 2

\* Children of one Specification node.
MaxChildren == 2

\* Values of an ExhaustiveDomain.
MaxValues == 2

\* Repetitions of a RepeatedDomain.
MaxRepetitions == 3

\* Calls of split() on one Specification.
MaxSplits == 1

(***************************************************************************)
(* Values.                                                                 *)
(***************************************************************************)
None == <<>>

Some(x) == <<x>>

ValueOf(o) == o[1]

INIT == Some("INIT")

READY == Some("READY")

ERROR == Some("ERROR")

DONE == Some("DONE")

Objectives == {None} \cup {Some(o) : o \in 1..MaxObjective}

Results == {None, Some("loss")}

Errmsgs == {None, Some("boom")}

HyperparameterValues == {None, Some(<<>>), Some(<<1>>)}

(***************************************************************************)
(* Trial (pyrameter/trial.py).  A Trial is its __dict__: a function from   *)
(* attribute names to values, which grows while __init__ runs.             *)
(***************************************************************************)
TrialStatusOf(t) ==
    IF t["errmsg"] # None THEN ERROR
    ELSE IF t["results"] # None /\ t["hyperparameters"] # None THEN DONE
    ELSE IF t["hyperparameters"] # None THEN READY
    ELSE INIT

DictPut(d, key, val) ==
    [k \in (DOMAIN d) \cup {key} |-> IF k = key THEN val ELSE d[k]]

RECURSIVE Trial_setattr(_, _, _)
RECURSIVE Trial_set_status(_)

\* A variant of set_status in which a recorded result wins over an error.
Trial_set_status_DoneFirst(t) ==
    IF "status" \in DOMAIN t
    THEN LET st == IF t["results"] # None /\ t["hyperparameters"] # None
                   THEN DONE
                   ELSE IF t["errmsg"] # None THEN ERROR
                   ELSE IF t["hyperparameters"] # None THEN READY
                   ELSE INIT
         IN  DictPut(DictPut(t, "status", st), "dirty", TRUE)
    ELSE t

Trial_set_status(t) ==
    IF "status" \in DOMAIN t
    THEN LET oldstatus == t["status"]
             t1 == Trial_setattr(t, "status", TrialStatusOf(t))
         IN  Trial_setattr(t1, "dirty", oldstatus = t1["status"])
    ELSE t

Trial_setattr(t, key, val) ==
    LET start_val == IF key \in DOMAIN t THEN t[key] ELSE None
        t1 == DictPut(t, key, val)
    IN  IF "status" \in DOMAIN t1 /\ start_val # val
        THEN Trial_set_status(t1)
        ELSE t1

EmptyDict == [k \in {} |-> None]

\* searchspace is None or the SearchSpace object the weak reference points to.
Trial_init(id, searchspace, hyperparameters, results, objective, errmsg) ==
    LET t1 == Trial_setattr(EmptyDict, "id", id)
        t2 == Trial_setattr(Trial_setattr(t1, "dirty", FALSE),
                            "_searchspace", searchspace)
        t3 == Trial_setattr(t2, "hyperparameters", hyperparameters)
        t4 == Trial_setattr(t3, "results", results)
        t5 == Trial_setattr(t4, "objective", objective)
        t6 == Trial_setattr(t5, "errmsg", errmsg)
        t7 == Trial_setattr(t6, "submissions", 0)
        t8 == Trial_setattr(t7, "status", None)
    IN  Trial_set_status(t8)

\* sobjs is the heap of SearchSpace objects: the record holds the id of the
\* Trial's SearchSpace.
Trial_to_json(t, sobjs) ==
    [searchspace |-> IF t["_searchspace"] = None THEN None
                     ELSE Some(sobjs[ValueOf(t["_searchspace"])].id),
     status |-> t["status"], hyperparameters |-> t["hyperparameters"],
     results |-> t["results"], objective |-> t["objective"],
     errmsg |-> t["errmsg"]]

\* obj.searchspace is the SearchSpace object the caller put into the record.
Trial_from_json(id, obj) ==
    Trial_setattr(Trial_init(id, obj.searchspace, obj.hyperparameters,
                             obj.results, obj.objective, obj.errmsg),
                  "dirty", FALSE)

(***************************************************************************)
(* Domain (pyrameter/domains/base.py).  A Domain is its name, its          *)
(* complexity and the value it generated last (current).  Names are        *)
(* numbered in their lexicographic order, so < on numbers is < on names.   *)
(* A value drawn from a Domain is tagged with the Domain's name.           *)
(***************************************************************************)
Domain_init(name, complexity) ==
    [name |-> name, complexity |-> complexity, current |-> None]

Domain_eq(d1, d2) == d1.name = d2.name

Domain_lt(d1, d2) == d1.name < d2.name

Domain_to_json(d) == [name |-> d.name, complexity |-> d.complexity]

Domain_from_json(obj) == Domain_init(obj.name, obj.complexity)

\* list.sort() on Domains: stable, ascending by name.
RECURSIVE SortDomains(_)

SortDomains(ds) ==
    IF ds = <<>> THEN <<>>
    ELSE LET front == SortDomains(SubSeq(ds, 1, Len(ds) - 1))
             x == ds[Len(ds)]
             k == Cardinality({i \in 1..Len(front) : ~Domain_lt(x, front[i])})
         IN  SubSeq(front, 1, k) \o <<x>> \o SubSeq(front, k + 1, Len(front))

(***************************************************************************)
(* SearchSpace (pyrameter/searchspace.py).  trials holds Trial ids;        *)
(* complexity and uncertainty are the _complexity and _uncertainty caches; *)
(* rank is unset until sort_spaces.  exp_key and ready, which no operation *)
(* below reads, are left out.                                              *)
(***************************************************************************)
SearchSpace_init(id, domains) ==
    [id |-> id, domains |-> SortDomains(domains), trials |-> <<>>,
     rank |-> None, complexity |-> None, uncertainty |-> None]

\* SearchSpace.__eq__: same number of domains, equal names position by position.
SearchSpace_eq(s1, s2) ==
    /\ Len(s1.domains) = Len(s2.domains)
    /\ \A i \in 1..Len(s1.domains) : Domain_eq(s1.domains[i], s2.domains[i])

RECURSIVE Product(_)

Product(cs) == IF cs = <<>> THEN 1 ELSE cs[1] * Product(Tail(cs))

\* The complexity property: the cached value, else the product computed now.
SearchSpace_complexity(s) ==
    IF s.complexity = None
    THEN Product([i \in 1..Len(s.domains) |-> s.domains[i].complexity])
    ELSE ValueOf(s.complexity)

UncertaintyMinTrials == 10

\* The uncertainty property.  Up to UncertaintyMinTrials trials it is 1; the
\* bounds keep every SearchSpace below that.
SearchSpace_uncertainty(s) == 1

\* A variant of done that counts every Trial that carries no READY status.
SearchSpace_done_CountsNotReady(s, objs, n) ==
    Cardinality({i \in 1..Len(s.trials) :
                    objs[s.trials[i] + 1]["status"] # READY}) >= n

SearchSpace_done(s, objs, n) ==
    Cardinality({i \in 1..Len(s.trials) :
                    objs[s.trials[i] + 1]["status"] = DONE}) >= n

\* SearchSpace.optimum(): the first Trial of minimal objective among the
\* Trials whose objective is set (sorted() is stable), None without one.
SearchSpace_optimum(s, objs) ==
    LET have == {i \in 1..Len(s.trials) : objs[s.trials[i] + 1]["objective"] # None}
        obj(i) == ValueOf(objs[s.trials[i] + 1]["objective"])
    IN  IF have = {} THEN None
        ELSE LET best == CHOOSE i \in have :
                            \A j \in have : obj(i) < obj(j) \/ (obj(i) = obj(j) /\ i <= j)
             IN  Some(s.trials[best])

\* method(space): the Method collaborator returns one value per Domain, in the
\* order of space.domains.
Method_call(s) == [i \in 1..Len(s.domains) |-> s.domains[i].name]

\* SearchSpace.__call__ putting the new Trial first in self.trials.
SearchSpace_call_Prepends(s, tid) ==
    LET hyperparameters == Method_call(s)
    IN  [s EXCEPT !.domains = [i \in 1..Len(s.domains) |->
                                  [s.domains[i] EXCEPT !.current = Some(hyperparameters[i])]],
                  !.trials = <<tid>> \o s.trials]

\* SearchSpace.__call__ after the Method returned: record the drawn values on
\* the Domains, create the Trial and append it.
SearchSpace_call(s, tid) ==
    LET hyperparameters == Method_call(s)
    IN  [s EXCEPT !.domains = [i \in 1..Len(s.domains) |->
                                  [s.domains[i] EXCEPT !.current = Some(hyperparameters[i])]],
                  !.trials = Append(s.trials, tid)]

SearchSpace_to_json(s, objs, sobjs) ==
    [id |-> s.id, complexity |-> s.complexity, uncertainty |-> s.uncertainty,
     domains |-> [i \in 1..Len(s.domains) |-> Domain_to_json(s.domains[i])],
     trials |-> [i \in 1..Len(s.trials) |->
                   Trial_to_json(objs[s.trials[i] + 1], sobjs)]]

\* SearchSpace.from_json: a new object whose Trials are new Trial objects with
\* the ids firstTid, firstTid + 1, ...
SearchSpace_from_json(obj, firstTid) ==
    [SearchSpace_init(obj.id,
                      [i \in 1..Len(obj.domains) |-> Domain_from_json(obj.domains[i])])
        EXCEPT !.trials = [i \in 1..Len(obj.trials) |-> firstTid + i - 1],
               !.complexity = obj.complexity,
               !.uncertainty = obj.uncertainty]

(***************************************************************************)
(* Python list helpers on lists of SearchSpace references.                 *)
(***************************************************************************)
\* x in list: some element is x or equals x.
ListContains(refs, r, sobjs) ==
    \E i \in 1..Len(refs) : refs[i] = r \/ SearchSpace_eq(sobjs[refs[i]], sobjs[r])

\* list.remove(x): removes the first element that is x or equals x.
ListRemove(refs, r, sobjs) ==
    LET hit(i) == refs[i] = r \/ SearchSpace_eq(sobjs[refs[i]], sobjs[r])
        k == CHOOSE i \in 1..Len(refs) : hit(i) /\ \A j \in 1..(i - 1) : ~hit(j)
    IN  SubSeq(refs, 1, k - 1) \o SubSeq(refs, k + 1, Len(refs))

\* list.sort(key=lambda x: x.rank): stable, ascending by rank.
RECURSIVE SortByRank(_, _)

SortByRank(refs, sobjs) ==
    IF refs = <<>> THEN <<>>
    ELSE LET front == SortByRank(SubSeq(refs, 1, Len(refs) - 1), sobjs)
             x == refs[Len(refs)]
             key(r) == ValueOf(sobjs[r].rank)
             k == Cardinality({i \in 1..Len(front) : key(front[i]) <= key(x)})
         IN  SubSeq(front, 1, k) \o <<x>> \o SubSeq(front, k + 1, Len(front))

\* np.argsort(values): an index array idx (0-based) with values[idx[0]] <=
\* values[idx[1]] <= ...  The default kind is not stable, so equal values may
\* come in any order.
Argsort(values) ==
    {idx \in [1..Len(values) -> 0..(Len(values) - 1)] :
        /\ \A i, j \in 1..Len(values) : i # j => idx[i] # idx[j]
        /\ \A i \in 1..(Len(values) - 1) :
              values[idx[i] + 1] <= values[idx[i + 1] + 1]}

(***************************************************************************)
(* A Trial on its own (as in tests/test_trial.py): any constructor         *)
(* arguments, then any sequence of attribute assignments.  The             *)
(* orchestrator around it is the one compiled from an exclusive            *)
(* Specification without children: it has no SearchSpace.                  *)
(***************************************************************************)
InitTrial ==
    /\ \E h \in HyperparameterValues, r \in Results, o \in Objectives,
          e \in Errmsgs :
          trialObjs = <<Trial_init(0, None, h, r, o, e)>>
    /\ spaceObjs = <<>>
    /\ searchspaces = <<>>
    /\ active = <<>>
    /\ trials = {}
    /\ max_evals \in 1..MaxEvals
    /\ did_sort = FALSE
    /\ backend = FALSE
    /\ saved = None
    /\ spec = None
    /\ compiled = None
    /\ splits = 0
    /\ method = None
    /\ threads = None

Assign(key, val) ==
    /\ trialObjs' = [trialObjs EXCEPT ![1] = Trial_setattr(@, key, val)]
    /\ UNCHANGED <<spaceObjs, searchspaces, active, trials, max_evals,
                   did_sort, backend, saved, spec, compiled, splits,
                   method, threads>>

AssignHyperparameters == \E v \in HyperparameterValues : Assign("hyperparameters", v)

AssignResults == \E v \in Results : Assign("results", v)

AssignObjective == \E v \in Objectives : Assign("objective", v)

AssignErrmsg == \E v \in Errmsgs : Assign("errmsg", v)

AssignSubmissions ==
    /\ trialObjs[1]["submissions"] < MaxSubmissions
    /\ Assign("submissions", trialObjs[1]["submissions"] + 1)

AssignDirty == \E v \in BOOLEAN : Assign("dirty", v)

AssignStatus == \E v \in {INIT, READY, ERROR, DONE} : Assign("status", v)

NextTrial ==
    \/ AssignHyperparameters
    \/ AssignResults
    \/ AssignObjective
    \/ AssignErrmsg
    \/ AssignSubmissions
    \/ AssignDirty
    \/ AssignStatus

SpecTrial == InitTrial /\ [][NextTrial]_vars

(***************************************************************************)
(* Specification (pyrameter/specification.py) and the Domains it compiles  *)
(* (pyrameter/domains).  A name is the sequence of its pieces: a child key *)
(* is one piece, the separator "." another, the suffix of a repetition a   *)
(* third, so that joining is concatenation.  A Specification is a tree:    *)
(* children is the dict, in insertion order, as a list of (key, val).  A   *)
(* node of the tree is the object at a path, the list of child positions   *)
(* from the root.  The lists split returns hold either a child object of   *)
(* the tree, [ref |-> path], whose fields are read through the tree, or a  *)
(* Domain that split constructed.                                          *)
(***************************************************************************)
\* '.'.join([root, name])
Join(root, name) == root \o <<".">> \o name

\* f'___{i}'
Suffix(i) == <<"___0", "___1", "___2", "___3", "___4">>[i + 1]

ConstantDomain_init(name, domain) ==
    [type |-> "ConstantDomain", name |-> name, domain |-> domain]

ExhaustiveDomain_init(name, domain) ==
    [type |-> "ExhaustiveDomain", name |-> name, domain |-> domain, index |-> 0]

\* RepeatedDomain(name, domain, repetitions, split=split): domain is a
\* Domain, of which the object holds `repetitions` renamed deep copies.
RepeatedDomain_init(name, domain, repetitions, split) ==
    [type |-> "RepeatedDomain", name |-> name,
     domain |-> [i \in 1..repetitions |->
                    [domain EXCEPT !.name = name \o <<Suffix(i - 1)>>]],
     repetitions |-> repetitions, should_split |-> split]

\* RepeatedDomain.split() of a domain flagged to split
RepeatedDomain_split(self) ==
    [i \in 1..(self.repetitions - 1) |->
        RepeatedDomain_init(self.name, self.domain[1], i, TRUE)]

\* A Python int passed as a child value.
PyInt(v) == [type |-> "int", value |-> v]

\* A Python dict passed as a child value: its exclusive and optional entries
\* and its other items, in order.
PyDict(exclusive, optional, items) ==
    [type |-> "dict", exclusive |-> exclusive, optional |-> optional,
     items |-> items]

\* self.children[key] = val
ChildrenPut(children, key, val) ==
    IF \E i \in 1..Len(children) : children[i].key = key
    THEN [i \in 1..Len(children) |->
             IF children[i].key = key THEN [key |-> key, val |-> val]
             ELSE children[i]]
    ELSE Append(children, [key |-> key, val |-> val])

RECURSIVE Specification_init(_, _, _, _)
RECURSIVE Specification_setattr(_, _, _)

\* Specification.__setattr__(key, val) for a key that names a child; val is
\* a dict, a Domain, a Specification or an int.
Specification_setattr(self, key, val) ==
    LET child ==
          CASE val.type = "dict" ->
                 Specification_init(<<key>>, val.exclusive, val.optional, val.items)
            [] val.type = "int" -> ConstantDomain_init(<<key>>, val.value)
            [] OTHER -> [val EXCEPT !.name = <<key>>]
    IN  [self EXCEPT !.children = ChildrenPut(self.children, key, child)]

\* Specification(name=name, exclusive=exclusive, optional=optional, **kwargs)
Specification_init(name, exclusive, optional, kwargs) ==
    LET RECURSIVE SetAll(_, _)
        SetAll(self, i) ==
            IF i > Len(kwargs) THEN self
            ELSE SetAll(Specification_setattr(self, kwargs[i].key, kwargs[i].val),
                        i + 1)
    IN  SetAll([type |-> "Specification", name |-> name,
                exclusive |-> exclusive, optional |-> optional,
                children |-> <<>>], 1)

\* Specification.__setitem__(key, value): what the call returns or raises and
\* the node it leaves.
Specification_setitem(self, key, value) ==
    [outcome |-> "return", self |-> Specification_setattr(self, key, value)]

\* Scope(*args) of scope.py, args a list of (key, val) pairs: the children
\* it collects, or the DuplicateDomainError of a key given twice.
Scope_init(args) ==
    LET RECURSIVE Collect(_, _)
        Collect(children, i) ==
            IF i > Len(args) THEN [outcome |-> "return", children |-> children]
            ELSE IF \E c \in 1..Len(children) : children[c].key = args[i].key
                 THEN [outcome |-> "DuplicateDomainError", children |-> children]
                 ELSE Collect(Append(children, args[i]), i + 1)
    IN  Collect(<<>>, 1)

\* Specification.__getitem__ along a path
RECURSIVE Specification_getitem(_, _)

Specification_getitem(self, path) ==
    IF path = <<>> THEN self
    ELSE Specification_getitem(self.children[path[1]].val, Tail(path))

\* The loops nested the other way round.
Combine_SubdomainsetsOuter(dss, subdomainsets) ==
    [n \in 1..(Len(dss) * Len(subdomainsets)) |->
        dss[((n - 1) % Len(dss)) + 1]
          \o subdomainsets[((n - 1) \div Len(dss)) + 1]]

\* [ds1 + ds2 for ds1 in domainsets for ds2 in subdomainsets]
Combine(dss, subdomainsets) ==
    [n \in 1..(Len(dss) * Len(subdomainsets)) |->
        dss[((n - 1) \div Len(subdomainsets)) + 1]
          \o subdomainsets[((n - 1) % Len(subdomainsets)) + 1]]

RECURSIVE Specification_split(_, _, _)
RECURSIVE SplitChild(_, _, _, _, _)

\* One pass of the loop over self.children, from the i-th child on: the
\* child is renamed, then compiled according to its type; dss is domainsets
\* so far.  Yields the node with its renamed children and the domainsets.
SplitChild(self, path, root, i, dss) ==
    IF i > Len(self.children) THEN [self |-> self, domainsets |-> dss]
    ELSE
      LET val0 == self.children[i].val
          val == [val0 EXCEPT !.name = Join(root, val0.name)]
          here == Append(path, i)
          step ==
            CASE val.type = "Specification" ->
                   LET sub == Specification_split(val, here, val.name)
                   IN  [val |-> sub.self,
                        domainsets |-> IF self.exclusive THEN dss \o sub.domainsets
                                       ELSE Combine(dss, sub.domainsets)]
              [] val.type = "ExhaustiveDomain" ->
                   LET newval(k) == ConstantDomain_init(val.name, val.domain[k])
                       m == Len(val.domain)
                       new_domainsets ==
                           IF self.exclusive THEN <<>>
                           ELSE [n \in 1..(m * Len(dss)) |->
                                    dss[((n - 1) % Len(dss)) + 1]
                                      \o <<newval(((n - 1) \div Len(dss)) + 1)>>]
                       appended ==
                           IF self.exclusive
                           THEN dss \o [k \in 1..m |-> <<newval(k)>>]
                           ELSE dss
                   IN  [val |-> val,
                        domainsets |-> IF Len(new_domainsets) > 0
                                       THEN new_domainsets ELSE appended]
              [] val.type = "RepeatedDomain" /\ val.should_split ->
                   LET split == RepeatedDomain_split(val)
                   IN  [val |-> val,
                        domainsets |->
                           IF self.exclusive THEN <<>>
                           ELSE Combine(dss, [k \in 1..Len(split) |-> split[k].domain])]
              [] OTHER ->
                   [val |-> val,
                    domainsets |->
                       IF self.exclusive THEN Append(dss, <<[ref |-> here]>>)
                       ELSE [n \in 1..Len(dss) |-> Append(dss[n], [ref |-> here])]]
      IN  SplitChild([self EXCEPT !.children[i].val = step.val], path, root,
                     i + 1, step.domainsets)

\* The empty configuration of an optional node put first.
Specification_split_EmptyFirst(self, path, root) ==
    LET r == SplitChild(self, path, root, 1,
                        IF self.exclusive THEN <<>> ELSE << <<>> >>)
    IN  [self |-> r.self,
         domainsets |-> IF self.optional THEN << <<>> >> \o r.domainsets
                        ELSE r.domainsets]

\* Specification.split(root) of the node at path; root is '' when split is
\* called without it.
Specification_split(self, path, root) ==
    LET r == SplitChild(self, path, root, 1,
                        IF self.exclusive THEN <<>> ELSE << <<>> >>)
    IN  [self |-> r.self,
         domainsets |-> IF self.optional THEN Append(r.domainsets, <<>>)
                        ELSE r.domainsets]

(***************************************************************************)
(* A Specification on its own (as in tests/test_specification.py): built   *)
(* by the constructor and by item assignments on the root and on its       *)
(* nested Specifications, then compiled by split().  The children of a     *)
(* node take the keys of Keys in order.                                    *)
(***************************************************************************)
Keys == <<"a", "b", "c", "d">>

\* The grids of the ExhaustiveDomains: none and MaxValues values.
ExhaustiveGrids == {<<>>, [i \in 1..MaxValues |-> i]}

\* Values assigned to the items of a nested Specification.
NestedValues ==
    {PyInt(5)} \cup {ExhaustiveDomain_init(<<"g">>, g) : g \in ExhaustiveGrids}

\* Values assigned to the items of the root.
RootValues ==
    NestedValues
      \cup {RepeatedDomain_init(<<"r">>, ConstantDomain_init(<<"u">>, 3),
                                MaxRepetitions, TRUE)}
      \cup {PyDict(e, o, <<>>) : e \in BOOLEAN, o \in BOOLEAN}

\* The keys an assignment to a node may use: the ones it holds and, below
\* MaxChildren, the next one.
KeysFor(node) ==
    {node.children[i].key : i \in 1..Len(node.children)}
      \cup (IF Len(node.children) < MaxChildren
            THEN {Keys[Len(node.children) + 1]} ELSE {})

\* s = Specification(exclusive=e, optional=o)
InitSplit ==
    /\ \E e \in BOOLEAN, o \in BOOLEAN :
          spec = Some(Specification_init(<<>>, e, o, <<>>))
    /\ compiled = None
    /\ splits = 0
    /\ method = None
    /\ threads = None
    /\ spaceObjs = <<>>
    /\ trialObjs = <<>>
    /\ searchspaces = <<>>
    /\ active = <<>>
    /\ trials = {}
    /\ max_evals = 1
    /\ did_sort = FALSE
    /\ backend = FALSE
    /\ saved = None

FMinVars == <<spaceObjs, trialObjs, searchspaces, active, trials, max_evals,
              did_sort, backend, saved,
              method, threads>>

\* s[key] = val
SetItem ==
    /\ splits = 0
    /\ \E key \in KeysFor(ValueOf(spec)), val \in RootValues :
          spec' = Some(Specification_setitem(ValueOf(spec), key, val).self)
    /\ UNCHANGED <<compiled, splits, FMinVars>>

\* s[k][key] = val for a nested Specification s[k]
SetNestedItem ==
    /\ splits = 0
    /\ \E i \in 1..Len(ValueOf(spec).children) :
          /\ ValueOf(spec).children[i].val.type = "Specification"
          /\ \E key \in KeysFor(ValueOf(spec).children[i].val),
                val \in NestedValues :
                spec' = Some([ValueOf(spec) EXCEPT !.children[i].val =
                                 Specification_setitem(@, key, val).self])
    /\ UNCHANGED <<compiled, splits, FMinVars>>

\* s.split()
Split ==
    /\ splits < MaxSplits
    /\ LET r == Specification_split(ValueOf(spec), <<>>, <<>>)
       IN  /\ spec' = Some(r.self)
           /\ compiled' = Some(r.domainsets)
    /\ splits' = splits + 1
    /\ UNCHANGED FMinVars

NextSplit ==
    \/ SetItem
    \/ SetNestedItem
    \/ Split

SpecSplit == InitSplit /\ [][NextSplit]_vars

(***************************************************************************)
(* FMin (pyrameter/optimizer.py).                                          *)
(*                                                                         *)
(* Each configuration below is the list of domain lists that               *)
(* Specification.split() returns for one Specification, in the order of    *)
(* split's result; FMin.__init__ wraps every list in a SearchSpace.        *)
(* GridSearchSpace is left out: split compiles an ExhaustiveDomain into    *)
(* ConstantDomains, so FMin.__init__ builds plain SearchSpaces from them.  *)
(***************************************************************************)
\* Specification(exclusive=True, x=<continuous>, y=<constant>)
ConfigExclusive == << <<Domain_init(1, 3)>>, <<Domain_init(2, 1)>> >>

\* Specification(g=ExhaustiveDomain([v1, v2])): two ConstantDomains named g
ConfigExhaustive == << <<Domain_init(4, 1)>>, <<Domain_init(4, 1)>> >>

\* Specification(exclusive=True, x=<continuous>, y=<constant>, z=<continuous>)
ConfigThree ==
    << <<Domain_init(1, 4)>>, <<Domain_init(2, 1)>>, <<Domain_init(3, 3)>> >>

\* Specification(x=<continuous>)
ConfigSingle == << <<Domain_init(1, 3)>> >>

\* Specification(optional=True, y=<continuous>, x=<continuous>)
ConfigOptional == << <<Domain_init(2, 3), Domain_init(1, 4)>>, <<>> >>

Configurations == {ConfigExclusive, ConfigExhaustive, ConfigThree, ConfigOptional}

BackendConfigurations == {ConfigSingle}

\* An id that no SearchSpace and no Trial carries: ids are counted from 0 and
\* there are fewer than MaxObjects objects of either kind.
UnknownId == MaxObjects

InitWith(configurations, has_backend) ==
    /\ \E domainsets \in configurations :
          /\ spaceObjs = [i \in 1..Len(domainsets) |->
                             SearchSpace_init(i - 1, domainsets[i])]
          /\ searchspaces = [i \in 1..Len(domainsets) |-> i]
          /\ active = [i \in 1..Len(domainsets) |-> i]
    /\ trialObjs = <<>>
    /\ trials = {}
    /\ max_evals \in 1..MaxEvals
    /\ did_sort = FALSE
    /\ backend = has_backend
    /\ saved = None
    /\ spec = None
    /\ compiled = None
    /\ splits = 0
    /\ method = None
    /\ threads = None

\* FMin(exp_key, spec, method, None, max_evals)
Init == InitWith(Configurations, FALSE)

\* FMin(exp_key, spec, method, 'results.json', max_evals)
InitBackend == InitWith(BackendConfigurations, TRUE)

SpaceIds == {spaceObjs[r].id : r \in 1..Len(spaceObjs)} \cup {UnknownId}

TrialIds == {i - 1 : i \in 1..Len(trialObjs)} \cup {UnknownId}

(***************************************************************************)
(* Every operation is a function of the current state and its arguments    *)
(* that yields what the call returns or raises (outcome, value) and the    *)
(* fields it leaves behind; the action of the operation installs them.     *)
(***************************************************************************)
\* What a call leaves when it changes nothing.
Unchanged(outcome, value) ==
    [outcome |-> outcome, value |-> value, spaceObjs |-> spaceObjs,
     trialObjs |-> trialObjs, searchspaces |-> searchspaces, active |-> active,
     trials |-> trials]

\* The SearchSpace generate draws from: None when active is empty (the call
\* returns None), the idx-th of active without ssid, else the first of active
\* with that id, "IndexError" without one.
GenerateChoice(ssid, idx) ==
    IF Len(active) = 0 THEN [outcome |-> "return", ss |-> None]
    ELSE IF ssid = None THEN [outcome |-> "chosen", ss |-> Some(active[idx])]
    ELSE LET found == {i \in 1..Len(active) : spaceObjs[active[i]].id = ValueOf(ssid)}
         IN  IF found = {} THEN [outcome |-> "IndexError", ss |-> None]
             ELSE [outcome |-> "chosen",
                   ss |-> Some(active[CHOOSE i \in found : \A j \in found : i <= j])]

\* FMin.generate(ssid); idx is the index np.random.choice draws, method_raises
\* whether the Method raises instead of returning.
GenerateCall(ssid, idx, method_raises) ==
    LET choice == GenerateChoice(ssid, idx)
    IN  IF choice.outcome # "chosen" THEN Unchanged(choice.outcome, None)
        ELSE IF method_raises THEN Unchanged("MethodError", None)
        ELSE LET ss == ValueOf(choice.ss)
                 tid == Len(trialObjs)
                 s == spaceObjs[ss]
             IN  [Unchanged("return", Some(tid)) EXCEPT
                    !.trialObjs = Append(trialObjs,
                                         Trial_init(tid, Some(ss), Some(Method_call(s)),
                                                    None, None, None)),
                    !.spaceObjs = [spaceObjs EXCEPT ![ss] = SearchSpace_call(s, tid)],
                    !.trials = trials \cup {tid}]

Install(r) ==
    /\ spaceObjs' = r.spaceObjs
    /\ trialObjs' = r.trialObjs
    /\ searchspaces' = r.searchspaces
    /\ active' = r.active
    /\ trials' = r.trials
    /\ UNCHANGED <<max_evals, did_sort, backend, saved, spec, compiled,
                   splits, method, threads>>

Generate(ssid, idx, method_raises) ==
    LET r == GenerateCall(ssid, idx, method_raises)
    IN  /\ Len(r.spaceObjs) + Len(r.trialObjs) <= MaxObjects
        /\ Len(r.trialObjs) <= MaxTrials
        /\ Install(r)

GenerateAny ==
    \E idx \in 1..Len(active), method_raises \in BOOLEAN :
       Generate(None, idx, method_raises)

GenerateNoActive == Len(active) = 0 /\ Generate(None, 1, FALSE)

GenerateInSpace ==
    \E ssid \in SpaceIds, method_raises \in BOOLEAN :
       Generate(Some(ssid), 1, method_raises)

TotalSubmissions ==
    LET RECURSIVE Sum(_)
        Sum(i) == IF i = 0 THEN 0 ELSE trialObjs[i]["submissions"] + Sum(i - 1)
    IN  Sum(Len(trialObjs))

\* The (objective, results, errmsg) triples a caller registers: a result with
\* its objective, a result without one, an objective without a result, an
\* error, and an error that also carries a result.
RegisterInputs ==
    {<<Some(o), Some("loss"), None>> : o \in 1..MaxObjective}
    \cup {<<None, Some("loss"), None>>, <<Some(1), None, None>>,
          <<Some(1), None, Some("boom")>>, <<Some(1), Some("loss"), Some("boom")>>}

\* The lookups of register_result: [...][0] over self.searchspaces by id, then
\* over ss.trials by id.  None when the list is empty (IndexError).
FindSpace(ssid) ==
    LET found == {i \in 1..Len(searchspaces) : spaceObjs[searchspaces[i]].id = ssid}
    IN  IF found = {} THEN None
        ELSE Some(searchspaces[CHOOSE i \in found : \A j \in found : i <= j])

FindTrial(s, trial_id) ==
    IF \E i \in 1..Len(s.trials) : s.trials[i] = trial_id THEN Some(trial_id) ELSE None

\* A variant of register_result that marks the Trial as submitted once
\* instead of counting the submissions.
RegisterCall_SubmittedOnce(ssid, trial_id, objective, results, errmsg) ==
    IF FindSpace(ssid) = None THEN Unchanged("IndexError", None)
    ELSE LET ss == ValueOf(FindSpace(ssid))
             s == spaceObjs[ss]
         IN  IF FindTrial(s, trial_id) = None THEN Unchanged("IndexError", None)
             ELSE LET t0 == trialObjs[trial_id + 1]
                      t1 == Trial_setattr(t0, "objective", objective)
                      t2 == Trial_setattr(t1, "results", results)
                      t3 == Trial_setattr(t2, "errmsg", errmsg)
                      t4 == Trial_setattr(t3, "submissions", 1)
                      objs == [trialObjs EXCEPT ![trial_id + 1] = t4]
                  IN  [Unchanged("return",
                                 Some(<<t4["submissions"], t4["hyperparameters"]>>))
                         EXCEPT
                         !.trialObjs = objs,
                         !.trials = trials \cup {trial_id},
                         !.active = IF /\ ListContains(active, ss, spaceObjs)
                                       /\ SearchSpace_done(s, objs, max_evals)
                                    THEN ListRemove(active, ss, spaceObjs)
                                    ELSE active]

\* FMin.register_result(ssid, trial_id, objective, results, errmsg) with a
\* single trial_id.
RegisterCall(ssid, trial_id, objective, results, errmsg) ==
    IF FindSpace(ssid) = None THEN Unchanged("IndexError", None)
    ELSE LET ss == ValueOf(FindSpace(ssid))
             s == spaceObjs[ss]
         IN  IF FindTrial(s, trial_id) = None THEN Unchanged("IndexError", None)
             ELSE LET t0 == trialObjs[trial_id + 1]
                      t1 == Trial_setattr(t0, "objective", objective)
                      t2 == Trial_setattr(t1, "results", results)
                      t3 == Trial_setattr(t2, "errmsg", errmsg)
                      t4 == Trial_setattr(t3, "submissions", t3["submissions"] + 1)
                      objs == [trialObjs EXCEPT ![trial_id + 1] = t4]
                  IN  [Unchanged("return",
                                 Some(<<t4["submissions"], t4["hyperparameters"]>>))
                         EXCEPT
                         !.trialObjs = objs,
                         !.trials = trials \cup {trial_id},
                         !.active = IF /\ ListContains(active, ss, spaceObjs)
                                       /\ SearchSpace_done(s, objs, max_evals)
                                    THEN ListRemove(active, ss, spaceObjs)
                                    ELSE active]

RegisterResult(ssid, trial_id, objective, results, errmsg) ==
    LET r == RegisterCall(ssid, trial_id, objective, results, errmsg)
    IN  /\ r.outcome = "return" => TotalSubmissions < MaxSubmissions
        /\ Install(r)

\* Whether the lookups succeed does not depend on what is registered.
RegisterFinds(ssid, trial_id) ==
    RegisterCall(ssid, trial_id, None, None, None).outcome = "return"

Register ==
    \E ssid \in SpaceIds, trial_id \in TrialIds :
       /\ RegisterFinds(ssid, trial_id)
       /\ \E in \in RegisterInputs :
             RegisterResult(ssid, trial_id, in[1], in[2], in[3])

RegisterNotFound ==
    \E ssid \in SpaceIds, trial_id \in TrialIds :
       /\ ~RegisterFinds(ssid, trial_id)
       /\ RegisterResult(ssid, trial_id, None, None, None)

\* FMin.optimum(): the scan over self.searchspaces.  best and candidate are
\* None or a Trial id; reading candidate.objective of None raises.
RECURSIVE OptimumScan(_, _)

OptimumScan(i, best) ==
    IF i > Len(searchspaces) THEN [outcome |-> "return", value |-> best]
    ELSE LET candidate == SearchSpace_optimum(spaceObjs[searchspaces[i]], trialObjs)
             objective(t) == ValueOf(trialObjs[ValueOf(t) + 1]["objective"])
         IN  IF best = None THEN OptimumScan(i + 1, candidate)
             ELSE IF candidate = None
             THEN [outcome |-> "AttributeError", value |-> None]
             ELSE IF objective(candidate) < objective(best)
             THEN OptimumScan(i + 1, candidate)
             ELSE OptimumScan(i + 1, best)

OptimumCall == OptimumScan(1, None)

\* optimum() reads and returns; it leaves every field as it is.
Optimum ==
    /\ OptimumCall.outcome \in {"return", "AttributeError"}
    /\ UNCHANGED vars

\* FMin.sort_spaces(use_complexity, use_uncertainty); idxC and idxU are the
\* index arrays np.argsort returns for the complexities and the uncertainties.
SortCall(use_complexity, use_uncertainty, idxC, idxU) ==
    LET n == Len(searchspaces)
        inList(r) == \E i \in 1..n : searchspaces[i] = r
        pos(r) == CHOOSE i \in 1..n : searchspaces[i] = r
        rankOf(i) == 1 * (IF use_complexity THEN idxC[i] ELSE 1)
                       * (IF use_uncertainty THEN idxU[i] ELSE 1)
        ranked == [r \in 1..Len(spaceObjs) |->
                     IF inList(r)
                     THEN [spaceObjs[r] EXCEPT
                             !.rank = Some(rankOf(pos(r))),
                             !.complexity =
                                 IF use_complexity
                                 THEN Some(SearchSpace_complexity(spaceObjs[r]))
                                 ELSE @,
                             !.uncertainty =
                                 IF use_uncertainty
                                 THEN Some(SearchSpace_uncertainty(spaceObjs[r]))
                                 ELSE @]
                     ELSE spaceObjs[r]]
    IN  [spaceObjs |-> ranked,
         searchspaces |-> IF use_complexity \/ use_uncertainty
                          THEN SortByRank(searchspaces, ranked)
                          ELSE searchspaces,
         did_sort |-> IF use_complexity \/ use_uncertainty THEN TRUE ELSE did_sort]

Complexities ==
    [i \in 1..Len(searchspaces) |-> SearchSpace_complexity(spaceObjs[searchspaces[i]])]

Uncertainties ==
    [i \in 1..Len(searchspaces) |-> SearchSpace_uncertainty(spaceObjs[searchspaces[i]])]

SortSpaces(use_complexity, use_uncertainty) ==
    /\ \A i \in 1..Len(searchspaces) :
          Len(spaceObjs[searchspaces[i]].trials) <= UncertaintyMinTrials
    /\ \E idxC \in (IF use_complexity THEN Argsort(Complexities) ELSE {<<>>}),
          idxU \in (IF use_uncertainty THEN Argsort(Uncertainties) ELSE {<<>>}) :
          LET r == SortCall(use_complexity, use_uncertainty, idxC, idxU)
          IN  /\ spaceObjs' = r.spaceObjs
              /\ searchspaces' = r.searchspaces
              /\ did_sort' = r.did_sort
    /\ UNCHANGED <<trialObjs, active, trials, max_evals, backend, saved,
                   spec, compiled, splits,
                   method, threads>>

\* The calls of sort_spaces that request a heuristic; with none requested the
\* call only resets every rank to 1.
SortFlags == {<<TRUE, TRUE>>, <<TRUE, FALSE>>, <<FALSE, TRUE>>}

Sort == \E flags \in SortFlags : SortSpaces(flags[1], flags[2])

\* FMin.save(): nothing without a backend; with the JSONBackend the file
\* holds every SearchSpace's to_json().
SaveCall ==
    IF ~backend THEN saved
    ELSE Some([i \in 1..Len(searchspaces) |->
                 SearchSpace_to_json(spaceObjs[searchspaces[i]], trialObjs,
                                     spaceObjs)])

Save ==
    /\ saved' = SaveCall
    /\ UNCHANGED <<spaceObjs, trialObjs, searchspaces, active, trials,
                   max_evals, did_sort, backend, spec, compiled, splits,
                   method, threads>>

\* FMin.load(): nothing without a backend; without a file open() raises; with
\* one, every persisted SearchSpace and Trial is rebuilt as a new object and
\* the rebuilt Trials enter the registry.
LoadCall ==
    IF ~backend THEN Unchanged("return", None)
    ELSE IF saved = None THEN Unchanged("FileNotFoundError", None)
    ELSE LET objs == ValueOf(saved)
             m == Len(objs)
             RECURSIVE Before(_)
             Before(k) == IF k = 1 THEN 0 ELSE Len(objs[k - 1].trials) + Before(k - 1)
             firstTid(k) == Len(trialObjs) + Before(k)
             nTrials == Before(m + 1)
             loadedSpaces == [k \in 1..m |-> SearchSpace_from_json(objs[k], firstTid(k))]
             spaceOf(j) == CHOOSE k \in 1..m :
                             Before(k) < j /\ j <= Before(k) + Len(objs[k].trials)
             loadedTrials ==
                 [j \in 1..nTrials |->
                    Trial_from_json(
                        Len(trialObjs) + j - 1,
                        [objs[spaceOf(j)].trials[j - Before(spaceOf(j))]
                            EXCEPT !.searchspace = Some(Len(spaceObjs) + spaceOf(j))])]
         IN  [Unchanged("return", None) EXCEPT
                !.spaceObjs = spaceObjs \o loadedSpaces,
                !.trialObjs = trialObjs \o loadedTrials,
                !.searchspaces = [k \in 1..m |-> Len(spaceObjs) + k],
                !.trials = trials \cup {Len(trialObjs) + j - 1 : j \in 1..nTrials}]

Load ==
    LET r == LoadCall
    IN  /\ Len(r.spaceObjs) + Len(r.trialObjs) <= MaxObjects
        /\ Len(r.trialObjs) <= MaxTrials
        /\ Install(r)

Next ==
    \/ GenerateAny
    \/ GenerateNoActive
    \/ GenerateInSpace
    \/ Register
    \/ RegisterNotFound
    \/ Optimum
    \/ Sort
    \/ Save
    \/ Load

Spec == Init /\ [][Next]_vars

SpecBackend == InitBackend /\ [][Next]_vars

(***************************************************************************)
(* Method (pyrameter/methods/method.py), the base class of the shipped     *)
(* optimization methods, as the `method` of an FMin.  The object holds     *)
(* n_generated and parameter_queue, a LIFO queue of pending vectors whose  *)
(* last element is the next one served.  A generated value is the record   *)
(* [of |-> the name of the Domain that generated it, value |-> None or the *)
(* number].                                                                *)
(***************************************************************************)
\* The largest n_generated the model follows.
MaxGenerated == 4

\* DiscreteDomain(name, domain): domain is the list of values.
DiscreteDomain_init(name, domain) ==
    [type |-> "DiscreteDomain", name |-> name, domain |-> domain,
     current |-> None]

\* SequenceDomain(name, domain): domain is a tuple of constants, each wrapped
\* in an unnamed ConstantDomain.
SequenceDomain_init(name, domain) ==
    [type |-> "SequenceDomain", name |-> name,
     domain |-> [i \in 1..Len(domain) |-> ConstantDomain_init(None, domain[i])],
     current |-> None]

\* d.generate().  A DiscreteDomain with values reads self._rng, which no
\* code sets, and with an empty list it yields None; a SequenceDomain yields
\* the tuple of what its members generate, a ConstantDomain its value.
Domain_generate(d) ==
    IF d.type = "DiscreteDomain"
    THEN IF Len(d.domain) > 0
         THEN [outcome |-> "AttributeError", value |-> None]
         ELSE [outcome |-> "return", value |-> [of |-> d.name, value |-> None]]
    ELSE [outcome |-> "return",
          value |-> [i \in 1..Len(d.domain) |->
                        [of |-> d.name, value |-> Some(d.domain[i].domain)]]]

\* space.generate(): np.array([d.generate() for d in self.domains])
SearchSpace_generate(space) ==
    IF \E i \in 1..Len(space.domains) :
          Domain_generate(space.domains[i]).outcome # "return"
    THEN [outcome |-> "AttributeError", value |-> None]
    ELSE [outcome |-> "return",
          value |-> [i \in 1..Len(space.domains) |->
                        Domain_generate(space.domains[i]).value]]

\* The rows of np.array(parameters) after expand_dims of a 1-d array: tuples
\* of one length from every Domain make a 2-d array with one row per Domain,
\* numbers make a 1-d array, which becomes the single row.
Rows(space, parameters) ==
    IF /\ Len(space.domains) > 0
       /\ \A i \in 1..Len(space.domains) :
             /\ space.domains[i].type = "SequenceDomain"
             /\ Len(space.domains[i].domain) = Len(space.domains[1].domain)
    THEN parameters
    ELSE <<parameters>>

\* DiscreteDomain.bound_index(idx): int(min(max(0, idx), len(self.domain)))
DiscreteDomain_bound_index(d, h) ==
    LET lo == IF ValueOf(h.value) < 0 THEN 0 ELSE ValueOf(h.value)
    IN  [h EXCEPT !.value = Some(IF lo < Len(d.domain) THEN lo ELSE Len(d.domain))]

\* zip(space.domains, hyperparameters) stops at the shorter of the two.
ZipLen(space, hyperparameters) ==
    IF Len(space.domains) < Len(hyperparameters)
    THEN Len(space.domains) ELSE Len(hyperparameters)

\* Method.normalize(space, hyperparameters); only DiscreteDomain defines
\* bound_index, and max(0, None) is a TypeError.
Method_normalize(space, hyperparameters) ==
    IF \E i \in 1..ZipLen(space, hyperparameters) :
          \/ space.domains[i].type # "DiscreteDomain"
          \/ hyperparameters[i].value = None
    THEN LET i == CHOOSE i \in 1..ZipLen(space, hyperparameters) :
                     /\ \/ space.domains[i].type # "DiscreteDomain"
                        \/ hyperparameters[i].value = None
                     /\ \A j \in 1..(i - 1) :
                           /\ space.domains[j].type = "DiscreteDomain"
                           /\ hyperparameters[j].value # None
         IN  [outcome |-> IF space.domains[i].type # "DiscreteDomain"
                          THEN "AttributeError" ELSE "TypeError",
              value |-> None]
    ELSE [outcome |-> "return",
          value |-> Some([i \in 1..ZipLen(space, hyperparameters) |->
                             DiscreteDomain_bound_index(space.domains[i],
                                                        hyperparameters[i])])]

\* Method(); warm_up does not matter below, see Method___call__.
Method_init == [n_generated |-> 0, parameter_queue |-> <<>>]

\* len(completed) of space.to_array()
Completed(space, objs) ==
    Cardinality({i \in 1..Len(space.trials) :
                    objs[space.trials[i] + 1]["status"] = DONE})

\* Method.__call__(space).  With an empty queue space.to_array() reads
\* hyperparameter_indices of every DONE Trial, which Trial does not define;
\* so `completed` is 0 whenever to_array returns and the parameters come from
\* space.generate(), never from self.generate.  The rows are queued and the
\* last one is taken off and normalized.
Method___call__(self, space, objs) ==
    IF /\ self.parameter_queue = <<>>
       /\ \/ Completed(space, objs) > 0
          \/ SearchSpace_generate(space).outcome # "return"
    THEN [outcome |-> "AttributeError", value |-> None, self |-> self]
    ELSE LET rows == Rows(space, SearchSpace_generate(space).value)
             filled == IF self.parameter_queue = <<>>
                       THEN [n_generated |-> self.n_generated + Len(rows),
                             parameter_queue |-> rows]
                       ELSE self
             queue == filled.parameter_queue
             normed == Method_normalize(space, queue[Len(queue)])
         IN  [outcome |-> normed.outcome, value |-> normed.value,
              self |-> [filled EXCEPT
                           !.parameter_queue = SubSeq(queue, 1, Len(queue) - 1)]]

\* SearchSpace.__call__(method) with the vector the Method returned: the loop
\* over self.domains raises IndexError at the first Domain without an entry.
SearchSpace_call_with(s, tid, hyperparameters) ==
    LET n == IF Len(hyperparameters) < Len(s.domains)
             THEN Len(hyperparameters) ELSE Len(s.domains)
        assigned == [s EXCEPT !.domains =
                        [i \in 1..Len(s.domains) |->
                            IF i <= n
                            THEN [s.domains[i] EXCEPT
                                     !.current = Some(hyperparameters[i])]
                            ELSE s.domains[i]]]
    IN  IF Len(hyperparameters) < Len(s.domains)
        THEN [outcome |-> "IndexError", s |-> assigned]
        ELSE [outcome |-> "return",
              s |-> [assigned EXCEPT !.trials = Append(s.trials, tid)]]

\* FMin.generate() of an FMin whose method is the Method object m; idx is the
\* index np.random.choice draws.
GenerateQueuedCall(m, idx) ==
    LET choice == GenerateChoice(None, idx)
    IN  IF choice.outcome # "chosen"
        THEN [r |-> Unchanged(choice.outcome, None), method |-> m]
        ELSE LET ss == ValueOf(choice.ss)
                 tid == Len(trialObjs)
                 c == Method___call__(m, spaceObjs[ss], trialObjs)
             IN  IF c.outcome # "return"
                 THEN [r |-> Unchanged(c.outcome, None), method |-> c.self]
                 ELSE LET hyperparameters == ValueOf(c.value)
                          sc == SearchSpace_call_with(spaceObjs[ss], tid,
                                                      hyperparameters)
                          objs == [spaceObjs EXCEPT ![ss] = sc.s]
                      IN  IF sc.outcome # "return"
                          THEN [r |-> [Unchanged(sc.outcome, None) EXCEPT
                                          !.spaceObjs = objs],
                                method |-> c.self]
                          ELSE [r |-> [Unchanged("return", Some(tid)) EXCEPT
                                          !.trialObjs =
                                              Append(trialObjs,
                                                     Trial_init(tid, Some(ss),
                                                                Some(hyperparameters),
                                                                None, None, None)),
                                          !.spaceObjs = objs,
                                          !.trials = trials \cup {tid}],
                                method |-> c.self]

GenerateQueued ==
    /\ method # None
    /\ \E idx \in 1..Len(active) :
          LET c == GenerateQueuedCall(ValueOf(method), idx)
          IN  /\ Len(c.r.spaceObjs) + Len(c.r.trialObjs) <= MaxObjects
              /\ Len(c.r.trialObjs) <= MaxTrials
              /\ c.method.n_generated <= MaxGenerated
              /\ spaceObjs' = c.r.spaceObjs
              /\ trialObjs' = c.r.trialObjs
              /\ searchspaces' = c.r.searchspaces
              /\ active' = c.r.active
              /\ trials' = c.r.trials
              /\ method' = Some(c.method)
    /\ UNCHANGED <<max_evals, did_sort, backend, saved, spec, compiled, splits, threads>>

\* Specification(exclusive=True, m={'p': (0, 1), 'q': (1, 0)}, x=[7, 8]);
\* the names m.p, m.q, x are numbered 1, 2, 3.
ConfigSequences ==
    << <<SequenceDomain_init(1, <<0, 1>>), SequenceDomain_init(2, <<1, 0>>)>>,
       <<DiscreteDomain_init(3, <<7, 8>>)>> >>

\* Specification(exclusive=True, m={'p': (0,), 'q': (1,)}, n={'a': [7], 'b': [8]});
\* the names m.p, m.q, n.a, n.b are numbered 1, 2, 3, 4.
ConfigShort ==
    << <<SequenceDomain_init(1, <<0>>), SequenceDomain_init(2, <<1>>)>>,
       <<DiscreteDomain_init(3, <<7>>), DiscreteDomain_init(4, <<8>>)>> >>

\* Specification(optional=True, a=[])
ConfigDiscrete == << <<DiscreteDomain_init(1, <<>>)>>, <<>> >>

MethodConfigurations == {ConfigSequences, ConfigShort, ConfigDiscrete}

\* FMin(exp_key, spec, Method(), None, max_evals)
InitMethod ==
    /\ \E domainsets \in MethodConfigurations :
          /\ spaceObjs = [i \in 1..Len(domainsets) |->
                             SearchSpace_init(i - 1, domainsets[i])]
          /\ searchspaces = [i \in 1..Len(domainsets) |-> i]
          /\ active = [i \in 1..Len(domainsets) |-> i]
    /\ trialObjs = <<>>
    /\ trials = {}
    /\ max_evals \in 1..MaxEvals
    /\ did_sort = FALSE
    /\ backend = FALSE
    /\ saved = None
    /\ spec = None
    /\ compiled = None
    /\ splits = 0
    /\ method = Some(Method_init)
    /\ threads = None

NextMethod ==
    \/ GenerateQueued
    \/ Register
    \/ RegisterNotFound

SpecMethod == InitMethod /\ [][NextMethod]_vars

(***************************************************************************)
(* The batched form of FMin.register_result, in which trial_id, objective  *)
(* and results are parallel lists and errmsg is one value for all.         *)
(***************************************************************************)
\* The longest list of trial ids registered in one call.
MaxBatch == 2

\* The fields of the FMin a register_result call works on, as they are.
Fields == [outcome |-> "return", trialObjs |-> trialObjs, trials |-> trials,
           active |-> active, hyperparameters |-> <<>>, submissions |-> None]

\* The body of register_result for one trial id of SearchSpace object ss, on
\* the fields st.  The single-trial branch removes the space when
\* `ss in self.active and ss.done(self.max_evals)` (guarded); the loop of the
\* batched branch tests only `ss.done(self.max_evals)`, and list.remove
\* raises ValueError when no element equals ss.
RegisterElement(st, ss, trial_id, objective, results, errmsg, guarded) ==
    LET s == spaceObjs[ss]
    IN  IF FindTrial(s, trial_id) = None THEN [st EXCEPT !.outcome = "IndexError"]
        ELSE LET t0 == st.trialObjs[trial_id + 1]
                 t1 == Trial_setattr(t0, "objective", objective)
                 t2 == Trial_setattr(t1, "results", results)
                 t3 == Trial_setattr(t2, "errmsg", errmsg)
                 t4 == Trial_setattr(t3, "submissions", t3["submissions"] + 1)
                 objs == [st.trialObjs EXCEPT ![trial_id + 1] = t4]
                 held == ListContains(st.active, ss, spaceObjs)
                 after == [st EXCEPT
                             !.trialObjs = objs,
                             !.trials = @ \cup {trial_id},
                             !.hyperparameters = Append(@, t4["hyperparameters"]),
                             !.submissions = Some(t4["submissions"])]
             IN  IF ~SearchSpace_done(s, objs, max_evals) THEN after
                 ELSE IF held
                 THEN [after EXCEPT !.active = ListRemove(st.active, ss, spaceObjs)]
                 ELSE IF guarded THEN after
                 ELSE [after EXCEPT !.outcome = "ValueError"]

\* The elements from the i-th on, one after the other, until one raises.
RECURSIVE RegisterElements(_, _, _, _, _, _, _, _)

RegisterElements(st, ss, trial_ids, objectives, results, errmsg, guarded, i) ==
    IF i > Len(trial_ids) \/ st.outcome # "return" THEN st
    ELSE RegisterElements(
             RegisterElement(st, ss, trial_ids[i], objectives[i], results[i],
                             errmsg, guarded),
             ss, trial_ids, objectives, results, errmsg, guarded, i + 1)

\* FMin.register_result(ssid, trial_ids, objectives, results, errmsg) with a
\* list of trial ids.  `return trial.submissions, hyperparameters` reads the
\* loop variable, which an empty list leaves unbound.
RegisterBatchCall(ssid, trial_ids, objectives, results, errmsg) ==
    IF FindSpace(ssid) = None THEN Unchanged("IndexError", None)
    ELSE LET st == RegisterElements(Fields, ValueOf(FindSpace(ssid)), trial_ids,
                                    objectives, results, errmsg, FALSE, 1)
             outcome == IF st.outcome = "return" /\ Len(trial_ids) = 0
                        THEN "UnboundLocalError" ELSE st.outcome
         IN  [Unchanged(outcome,
                        IF outcome = "return"
                        THEN Some(<<ValueOf(st.submissions), st.hyperparameters>>)
                        ELSE None)
                EXCEPT !.trialObjs = st.trialObjs,
                       !.trials = st.trials,
                       !.active = st.active]

\* The (objective, results) pairs of a batch: a result with its objective and
\* an objective without a result.
BatchInputs == {<<Some(1), Some("loss")>>, <<Some(1), None>>}

RegisterBatch ==
    \E ssid \in SpaceIds, n \in 0..MaxBatch :
       \E trial_ids \in [1..n -> TrialIds], in \in [1..n -> BatchInputs] :
          /\ TotalSubmissions + n <= MaxSubmissions
          /\ Install(RegisterBatchCall(ssid, trial_ids,
                                       [i \in 1..n |-> in[i][1]],
                                       [i \in 1..n |-> in[i][2]], None))

NextBatch ==
    \/ GenerateAny
    \/ Register
    \/ RegisterBatch

SpecBatch == Init /\ [][NextBatch]_vars

(***************************************************************************)
(* Two callers inside FMin.register_result (optimizer.py:236-247).  The    *)
(* method takes no lock.  A caller runs lines 237-244 (the lookups and the *)
(* writes to its Trial) as one step and then, one step each, the           *)
(* membership test `ss in self.active`, the count ss.done(self.max_evals)  *)
(* and self.active.remove(ss) of lines 246-247.  With an external lock a   *)
(* caller holds it from its call to its return.                            *)
(***************************************************************************)
Callers == {1, 2}

Caller_init ==
    [pc |-> "idle", ss |-> None, in_active |-> FALSE, at_quota |-> FALSE,
     attempted |-> FALSE, outcome |-> None]

\* What the two callers register: a result that completes the Trial and one
\* that does not.
CallerInputs == {<<Some(1), Some("loss"), None>>, <<Some(1), None, None>>}

InitThreads ==
    /\ \E domainsets \in Configurations :
          /\ spaceObjs = [i \in 1..Len(domainsets) |->
                             SearchSpace_init(i - 1, domainsets[i])]
          /\ searchspaces = [i \in 1..Len(domainsets) |-> i]
          /\ active = [i \in 1..Len(domainsets) |-> i]
    /\ trialObjs = <<>>
    /\ trials = {}
    /\ max_evals \in 1..MaxEvals
    /\ did_sort = FALSE
    /\ backend = FALSE
    /\ saved = None
    /\ spec = None
    /\ compiled = None
    /\ splits = 0
    /\ method = None
    /\ \E lock \in BOOLEAN :
          threads = Some([lock |-> lock, holder |-> None,
                          caller |-> [p \in Callers |-> Caller_init]])

ThreadFrame ==
    UNCHANGED <<spaceObjs, searchspaces, max_evals, did_sort, backend, saved,
                spec, compiled, splits, method>>

\* The caller's return (or raise): its outcome is recorded and the external
\* lock, if the callers use one, is released.
CallerReturns(th, p, c, outcome) ==
    Some([th EXCEPT !.caller[p] = [c EXCEPT !.pc = "returned",
                                            !.outcome = Some(outcome)],
                    !.holder = None])

\* Lines 237-244: the lookups, the writes to the Trial, the registry entry
\* and the submission count.
ThreadCall(p) ==
    LET th == ValueOf(threads)
        c == th.caller[p]
    IN  /\ c.pc = "idle"
        /\ th.lock => th.holder = None
        /\ \E ssid \in SpaceIds, trial_id \in TrialIds, in \in CallerInputs :
              LET r == RegisterCall(ssid, trial_id, in[1], in[2], in[3])
              IN  IF r.outcome # "return"
                  THEN /\ threads' = CallerReturns(th, p, c, r.outcome)
                       /\ UNCHANGED <<trialObjs, trials, active>>
                  ELSE /\ trialObjs' = r.trialObjs
                       /\ trials' = r.trials
                       /\ threads' = Some([th EXCEPT
                              !.caller[p] = [c EXCEPT !.pc = "contains",
                                                      !.ss = FindSpace(ssid)],
                              !.holder = IF th.lock THEN Some(p) ELSE None])
                       /\ UNCHANGED active
        /\ ThreadFrame

\* Line 246, left operand: ss in self.active.
ThreadContains(p) ==
    LET th == ValueOf(threads)
        c == th.caller[p]
        found == ListContains(active, ValueOf(c.ss), spaceObjs)
    IN  /\ c.pc = "contains"
        /\ threads' = IF found
                      THEN Some([th EXCEPT !.caller[p] =
                                   [c EXCEPT !.pc = "done", !.in_active = TRUE]])
                      ELSE CallerReturns(th, p, c, "return")
        /\ UNCHANGED <<trialObjs, trials, active>>
        /\ ThreadFrame

\* Line 246, right operand: ss.done(self.max_evals).
ThreadDone(p) ==
    LET th == ValueOf(threads)
        c == th.caller[p]
        done == SearchSpace_done(spaceObjs[ValueOf(c.ss)], trialObjs, max_evals)
    IN  /\ c.pc = "done"
        /\ threads' = IF done
                      THEN Some([th EXCEPT !.caller[p] =
                                   [c EXCEPT !.pc = "remove", !.at_quota = TRUE]])
                      ELSE CallerReturns(th, p, c, "return")
        /\ UNCHANGED <<trialObjs, trials, active>>
        /\ ThreadFrame

\* Line 247: self.active.remove(ss), ValueError when no element equals ss.
ThreadRemove(p) ==
    LET th == ValueOf(threads)
        c == [th.caller[p] EXCEPT !.attempted = TRUE]
        ss == ValueOf(c.ss)
    IN  /\ c.pc = "remove"
        /\ IF ListContains(active, ss, spaceObjs)
           THEN /\ active' = ListRemove(active, ss, spaceObjs)
                /\ threads' = CallerReturns(th, p, c, "return")
           ELSE /\ active' = active
                /\ threads' = CallerReturns(th, p, c, "ValueError")
        /\ UNCHANGED <<trialObjs, trials>>
        /\ ThreadFrame

\* generate() run by the thread that owns the FMin, between the two callers'
\* steps when they use no lock and between their calls when they use one.
ThreadGenerate ==
    /\ ValueOf(threads).holder = None
    /\ GenerateAny

NextThreads ==
    \/ ThreadGenerate
    \/ \E p \in Callers : ThreadCall(p)
    \/ \E p \in Callers : ThreadContains(p)
    \/ \E p \in Callers : ThreadDone(p)
    \/ \E p \in Callers : ThreadRemove(p)

SpecThreads == InitThreads /\ [][NextThreads]_vars

(***************************************************************************)
(* PopulationSearchSpace (pyrameter/searchspace.py), the SearchSpace that  *)
(* FMin.__init__ builds when its method is a PopulationMethod.  The Method *)
(* is a collaborator: called with the space it raises or returns a list of *)
(* vectors or a single 1-d array.  A population is None or the list of its *)
(* Trials.                                                                 *)
(***************************************************************************)
\* The most vectors the Method returns in one population.
MaxPopulation == 2

\* The most populations a space produces.
MaxGenerations == 2

PopulationSearchSpace_init(id, domains) ==
    [ready |-> TRUE, population |-> None, best |-> None, generations |-> 0]
       @@ SearchSpace_init(id, domains)

\* What method(space) does: raise, return a list of n vectors (value), or
\* return one vector as a 1-d array (value[1], is_list FALSE).
MethodResults(s) ==
    {[outcome |-> "raise", is_list |-> FALSE, value |-> <<>>],
     [outcome |-> "return", is_list |-> FALSE, value |-> <<Method_call(s)>>]}
      \cup {[outcome |-> "return", is_list |-> TRUE,
             value |-> [i \in 1..n |-> Method_call(s)]] : n \in 0..MaxPopulation}

\* self.population is None or all([t.objective is not None for t in self.population])
PopulationSearchSpace_ready(s, objs) ==
    \/ s.population = None
    \/ \A i \in 1..Len(ValueOf(s.population)) :
          objs[ValueOf(s.population)[i] + 1]["objective"] # None

\* A variant of the readiness test that is satisfied by one member of the
\* population with an objective.
PopulationSearchSpace_call_AnyObjective(s, ss, objs, m) ==
    LET ready == \/ s.population = None
                 \/ \E i \in 1..Len(ValueOf(s.population)) :
                       objs[ValueOf(s.population)[i] + 1]["objective"] # None
        s1 == [s EXCEPT !.ready = ready]
    IN  IF ~ready
        THEN [outcome |-> "return", value |-> <<>>, self |-> s1,
              created |-> <<>>, method_calls |-> 0]
        ELSE IF m.outcome = "raise"
        THEN [outcome |-> "MethodError", value |-> <<>>, self |-> s1,
              created |-> <<>>, method_calls |-> 1]
        ELSE LET population == IF m.is_list THEN m.value ELSE <<m.value[1]>>
                 tid(i) == Len(objs) + i - 1
                 created == [i \in 1..Len(population) |->
                               Trial_init(tid(i), Some(ss), Some(population[i]),
                                          None, None, None)]
                 ids == [i \in 1..Len(population) |-> tid(i)]
             IN  [outcome |-> "return", value |-> ids,
                  self |-> [s1 EXCEPT !.population = Some(ids),
                                      !.trials = s.trials \o ids,
                                      !.generations = s.generations + 1],
                  created |-> created, method_calls |-> 1]

\* PopulationSearchSpace.__call__(method) on the space object s, the ss-th of
\* the heap, with m what method(self) does if it is called.  The call yields
\* what it returns (the list of new Trials, by id), the space it leaves, the
\* Trial objects it created and how often it called the Method.
PopulationSearchSpace_call(s, ss, objs, m) ==
    LET ready == PopulationSearchSpace_ready(s, objs)
        s1 == [s EXCEPT !.ready = ready]
    IN  IF ~ready
        THEN [outcome |-> "return", value |-> <<>>, self |-> s1,
              created |-> <<>>, method_calls |-> 0]
        ELSE IF m.outcome = "raise"
        THEN [outcome |-> "MethodError", value |-> <<>>, self |-> s1,
              created |-> <<>>, method_calls |-> 1]
        ELSE LET population == IF m.is_list THEN m.value ELSE <<m.value[1]>>
                 tid(i) == Len(objs) + i - 1
                 created == [i \in 1..Len(population) |->
                               Trial_init(tid(i), Some(ss), Some(population[i]),
                                          None, None, None)]
                 ids == [i \in 1..Len(population) |-> tid(i)]
             IN  [outcome |-> "return", value |-> ids,
                  self |-> [s1 EXCEPT !.population = Some(ids),
                                      !.trials = s.trials \o ids,
                                      !.generations = s.generations + 1],
                  created |-> created, method_calls |-> 1]

\* FMin.generate(ssid) over PopulationSearchSpaces: the chosen space is
\* called and every Trial of the list it returns enters the registry.
GeneratePopulationCall(ssid, idx, m) ==
    LET choice == GenerateChoice(ssid, idx)
    IN  IF choice.outcome # "chosen"
        THEN [method_calls |-> 0] @@ Unchanged(choice.outcome, None)
        ELSE LET ss == ValueOf(choice.ss)
                 c == PopulationSearchSpace_call(spaceObjs[ss], ss, trialObjs, m)
             IN  [method_calls |-> c.method_calls]
                    @@ [Unchanged(c.outcome,
                                  IF c.outcome = "return" THEN Some(c.value) ELSE None)
                          EXCEPT
                          !.spaceObjs = [spaceObjs EXCEPT ![ss] = c.self],
                          !.trialObjs = trialObjs \o c.created,
                          !.trials = trials \cup {c.value[i] : i \in 1..Len(c.value)}]

GeneratePopulation ==
    \E idx \in 1..Len(active) :
       \E m \in MethodResults(spaceObjs[active[idx]]) :
          LET r == GeneratePopulationCall(None, idx, m)
          IN  /\ Len(r.spaceObjs) + Len(r.trialObjs) <= MaxObjects
              /\ Len(r.trialObjs) <= MaxTrials
              /\ \A i \in 1..Len(r.spaceObjs) :
                    r.spaceObjs[i].generations <= MaxGenerations
              /\ Install(r)

\* What is registered for a member of a population: a result with its
\* objective and a result without one.
PopulationInputs == {<<Some(1), Some("loss"), None>>, <<None, Some("loss"), None>>}

RegisterMember ==
    \E ssid \in SpaceIds, trial_id \in TrialIds :
       /\ RegisterFinds(ssid, trial_id)
       /\ \E in \in PopulationInputs :
             RegisterResult(ssid, trial_id, in[1], in[2], in[3])

PopulationConfigurations == {ConfigExclusive, ConfigOptional}

\* FMin(exp_key, spec, <a PopulationMethod>, None, max_evals)
InitPopulation ==
    /\ \E domainsets \in PopulationConfigurations :
          /\ spaceObjs = [i \in 1..Len(domainsets) |->
                             PopulationSearchSpace_init(i - 1, domainsets[i])]
          /\ searchspaces = [i \in 1..Len(domainsets) |-> i]
          /\ active = [i \in 1..Len(domainsets) |-> i]
    /\ trialObjs = <<>>
    /\ trials = {}
    /\ max_evals \in 1..MaxEvals
    /\ did_sort = FALSE
    /\ backend = FALSE
    /\ saved = None
    /\ spec = None
    /\ compiled = None
    /\ splits = 0
    /\ method = None
    /\ threads = None

NextPopulation ==
    \/ GeneratePopulation
    \/ RegisterMember

SpecPopulation == InitPopulation /\ [][NextPopulation]_vars

(***************************************************************************)
(* Vocabulary of the properties below.  An object is named by its place in *)
(* its heap, so membership in a list of references is by identity.         *)
(***************************************************************************)
InList(refs, r) == \E i \in 1..Len(refs) : refs[i] = r

\* How many Trials of SearchSpace object s carry the status DONE in heap objs.
DoneCountIn(s, objs) ==
    Cardinality({i \in 1..Len(s.trials) : objs[s.trials[i] + 1]["status"] = DONE})

\* The step is the single-trial call register_result(ssid, trial_id, ...) with
\* both lookups succeeding.
RegisterStep(ssid, trial_id) ==
    /\ RegisterFinds(ssid, trial_id)
    /\ \E in \in RegisterInputs : RegisterResult(ssid, trial_id, in[1], in[2], in[3])

\* C1: after any sequence of assignments to a Trial's fields its status is
\* ERROR if errmsg is set, else DONE if hyperparameters and results are both
\* set, else READY if hyperparameters is set, else INIT.
C1_StatusIsFunctionOfFields ==
    \A i \in 1..Len(trialObjs) :
        LET t == trialObjs[i]
        IN  /\ (t["errmsg"] # None) => t["status"] = ERROR
            /\ (t["errmsg"] = None /\ t["hyperparameters"] # None
                  /\ t["results"] # None) => t["status"] = DONE
            /\ (t["errmsg"] = None /\ t["hyperparameters"] # None
                  /\ t["results"] = None) => t["status"] = READY
            /\ (t["errmsg"] = None /\ t["hyperparameters"] = None)
                  => t["status"] = INIT

\* C1 witness: an errmsg was set on a Trial that has hyperparameters and
\* results, the Trial was resubmitted, and it is classified ERROR.
C1_Witness ==
    /\ Len(trialObjs) = 1
    /\ trialObjs[1]["errmsg"] # None
    /\ trialObjs[1]["results"] # None
    /\ trialObjs[1]["hyperparameters"] # None
    /\ trialObjs[1]["objective"] # None
    /\ trialObjs[1]["submissions"] > 0
    /\ trialObjs[1]["status"] = ERROR

\* C2: whenever a single-trial register_result call returns leaving the named
\* SearchSpace S with max_evals or more DONE Trials, S.done(max_evals) is true
\* and S is not in active.
C2_QuotaReachedLeavesActive ==
    [][\A ssid \in SpaceIds, trial_id \in TrialIds :
          RegisterStep(ssid, trial_id) =>
             LET ss == ValueOf(FindSpace(ssid))
             IN  DoneCountIn(spaceObjs'[ss], trialObjs') >= max_evals =>
                    /\ SearchSpace_done(spaceObjs'[ss], trialObjs', max_evals)
                    /\ ~InList(active', ss)]_vars

\* C3: a register_result call removes from active only the SearchSpace named
\* by its ssid, only when that space's own count of DONE Trials has reached
\* max_evals, and at most one element; no other SearchSpace leaves active, also
\* not one whose domains carry the same names.
C3_RemovesOnlyNamedSpace ==
    [][\A ssid \in SpaceIds, trial_id \in TrialIds :
          RegisterStep(ssid, trial_id) =>
             LET ss == ValueOf(FindSpace(ssid))
             IN  /\ Len(active') >= Len(active) - 1
                 /\ \A r \in 1..Len(spaceObjs) :
                       InList(active, r) /\ ~InList(active', r) =>
                          /\ r = ss
                          /\ DoneCountIn(spaceObjs'[ss], trialObjs') >= max_evals]_vars

\* C4: only DONE Trials count toward the quota.  A Trial that is READY and is
\* not registered in a step (its submissions stay) is READY after it; and
\* active changes only in a step that registers a Trial and leaves the
\* SearchSpace of that Trial with max_evals or more DONE Trials: Trials that
\* are INIT, READY or ERROR, whatever objective they carry, never make a
\* SearchSpace leave active.
C4_OnlyDoneCountsTowardQuota ==
    [][/\ \A i \in 1..Len(trialObjs) :
             /\ trialObjs[i]["status"] = READY
             /\ trialObjs'[i]["submissions"] = trialObjs[i]["submissions"]
             => trialObjs'[i]["status"] = READY
       /\ active' # active =>
             \E r \in 1..Len(spaceObjs), i \in 1..Len(trialObjs) :
                /\ trialObjs'[i]["submissions"] # trialObjs[i]["submissions"]
                /\ \E k \in 1..Len(spaceObjs[r].trials) : spaceObjs[r].trials[k] = i - 1
                /\ DoneCountIn(spaceObjs'[r], trialObjs') >= max_evals]_vars

\* A SearchSpace still in active whose quota is 1 and which holds a Trial that
\* was registered with an objective but without results (READY), and one that
\* was registered with an error (ERROR).
C4_Witness ==
    /\ max_evals = 1
    /\ \E r \in 1..Len(spaceObjs) :
          /\ InList(active, r)
          /\ \E i, j \in 1..Len(spaceObjs[r].trials) :
                LET t == trialObjs[spaceObjs[r].trials[i] + 1]
                    u == trialObjs[spaceObjs[r].trials[j] + 1]
                IN  /\ t["submissions"] > 0 /\ t["objective"] # None
                    /\ t["status"] = READY
                    /\ u["submissions"] > 0 /\ u["status"] = ERROR

\* C5: register_result with a trial_id that is not in the named SearchSpace,
\* and register_result or generate(ssid) with an ssid that matches no
\* SearchSpace, fail with a not-found failure (IndexError) and leave every
\* Trial, the registry and active as they are.
C5_UnknownIdsFailNotFound ==
    /\ \A ssid \in SpaceIds, trial_id \in TrialIds :
          ~RegisterFinds(ssid, trial_id) =>
             RegisterCall(ssid, trial_id, Some(1), Some("loss"), None)
                = Unchanged("IndexError", None)
    /\ \A ssid \in SpaceIds :
          FindSpace(ssid) = None =>
             GenerateCall(Some(ssid), 1, FALSE) = Unchanged("IndexError", None)

\* C6: generate returns None, appends no Trial and adds nothing to the
\* registry whenever the chosen SearchSpace is at quota: without ssid when
\* the drawn space (or every space) has max_evals DONE Trials, and with an
\* ssid that names a space with max_evals DONE Trials.
C6_GenerateAtQuotaReturnsNull ==
    LET atQuota(r) == DoneCountIn(spaceObjs[r], trialObjs) >= max_evals
    IN  /\ \A idx \in 1..Len(active) :
              atQuota(active[idx]) =>
                 GenerateCall(None, idx, FALSE) = Unchanged("return", None)
        /\ (\A i \in 1..Len(searchspaces) : atQuota(searchspaces[i])) /\ Len(active) = 0 =>
              GenerateCall(None, 1, FALSE) = Unchanged("return", None)
        /\ \A i \in 1..Len(searchspaces) :
              atQuota(searchspaces[i]) =>
                 GenerateCall(Some(spaceObjs[searchspaces[i]].id), 1, FALSE)
                    = Unchanged("return", None)

\* C7: every Trial of the registry is in the trials list of exactly one
\* SearchSpace of searchspaces, and every Trial held by a SearchSpace object
\* is in the registry.
C7_RegistryTrialsInExactlyOneSpace ==
    /\ \A tid \in trials :
          Cardinality({i \in 1..Len(searchspaces) :
                          \E k \in 1..Len(spaceObjs[searchspaces[i]].trials) :
                             spaceObjs[searchspaces[i]].trials[k] = tid}) = 1
    /\ \A r \in 1..Len(spaceObjs) :
          \A k \in 1..Len(spaceObjs[r].trials) : spaceObjs[r].trials[k] \in trials

\* C8: optimum() returns None exactly when no SearchSpace of searchspaces
\* holds a DONE Trial; otherwise it returns a DONE Trial whose objective is at
\* most the objective of every DONE Trial.
C8_OptimumIsBestDoneTrial ==
    LET r == OptimumCall
        doneTrials == {tid \in 0..(Len(trialObjs) - 1) :
                          /\ trialObjs[tid + 1]["status"] = DONE
                          /\ \E i \in 1..Len(searchspaces) :
                                \E k \in 1..Len(spaceObjs[searchspaces[i]].trials) :
                                   spaceObjs[searchspaces[i]].trials[k] = tid}
        objective(tid) == trialObjs[tid + 1]["objective"]
    IN  /\ r.outcome = "return"
        /\ r.value = None <=> doneTrials = {}
        /\ r.value # None =>
              /\ ValueOf(r.value) \in doneTrials
              /\ \A u \in doneTrials :
                    objective(u) # None =>
                       /\ objective(ValueOf(r.value)) # None
                       /\ ValueOf(objective(ValueOf(r.value))) <= ValueOf(objective(u))

\* The places a list of heuristic values gives its elements: pos[i] is the
\* 0-based place of element i in an ascending order of the values.
Positions(values) ==
    {pos \in [1..Len(values) -> 0..(Len(values) - 1)] :
        \E idx \in Argsort(values) : \A i \in 1..Len(values) : idx[pos[i] + 1] = i - 1}

\* C9: after sort_spaces(use_complexity, use_uncertainty) each SearchSpace's
\* rank is the product, over the requested heuristics, of its own place in
\* the ascending order of that heuristic (counted from 0 or from 1); the
\* spaces are ascending by rank, equal ranks in their previous order; and
\* with only complexity requested and pairwise distinct complexities the
\* spaces end up ascending by complexity.
C9_RankIsProductOfPositions ==
    [][\A use_complexity \in BOOLEAN, use_uncertainty \in BOOLEAN :
          SortSpaces(use_complexity, use_uncertainty) =>
             LET n == Len(searchspaces)
                 rank(r) == ValueOf(spaceObjs'[r].rank)
                 before(r) == CHOOSE i \in 1..n : searchspaces[i] = r
                 complexity(r) == SearchSpace_complexity(spaceObjs[r])
             IN  /\ \E base \in {0, 1}, posC \in Positions(Complexities),
                       posU \in Positions(Uncertainties) :
                       \A i \in 1..n :
                          rank(searchspaces[i])
                             = (IF use_complexity THEN posC[i] + base ELSE 1)
                               * (IF use_uncertainty THEN posU[i] + base ELSE 1)
                 /\ {searchspaces'[i] : i \in 1..Len(searchspaces')}
                       = {searchspaces[i] : i \in 1..n}
                 /\ Len(searchspaces') = n
                 /\ \A i, j \in 1..n :
                       i < j =>
                          \/ rank(searchspaces'[i]) < rank(searchspaces'[j])
                          \/ /\ rank(searchspaces'[i]) = rank(searchspaces'[j])
                             /\ before(searchspaces'[i]) < before(searchspaces'[j])
                 /\ /\ use_complexity /\ ~use_uncertainty
                    /\ \A i, j \in 1..n : i # j => Complexities[i] # Complexities[j]
                    => \A i, j \in 1..n :
                          i < j => complexity(searchspaces'[i]) < complexity(searchspaces'[j])]_vars

\* C10: after a sort_spaces call that ranks the spaces, active is ordered
\* ascending by rank, so the index generate() draws from the Planck weights
\* picks the active space with the i-th lowest rank.
C10_ActiveAscendingByRank ==
    [][\A use_complexity \in BOOLEAN, use_uncertainty \in BOOLEAN :
          /\ use_complexity \/ use_uncertainty
          /\ SortSpaces(use_complexity, use_uncertainty)
          => \A i, j \in 1..Len(active') :
                i < j => ValueOf(spaceObjs'[active'[i]].rank)
                            <= ValueOf(spaceObjs'[active'[j]].rank)]_vars

(***************************************************************************)
(* Vocabulary of the properties of split.                                  *)
(***************************************************************************)
\* A plain leaf Domain: compiled as itself.
PlainLeaf(node) ==
    /\ node.type # "Specification"
    /\ node.type # "ExhaustiveDomain"
    /\ ~(node.type = "RepeatedDomain" /\ node.should_split)

\* A tree of plain leaf Domains and nested Specifications only.
RECURSIVE PlainTree(_)

PlainTree(node) ==
    IF node.type = "Specification"
    THEN \A i \in 1..Len(node.children) : PlainTree(node.children[i].val)
    ELSE PlainLeaf(node)

\* The concatenation of a list of lists.
RECURSIVE Flatten(_)

Flatten(lists) ==
    IF lists = <<>> THEN <<>> ELSE lists[1] \o Flatten(Tail(lists))

\* The Cartesian product of a list of alternative lists: every way to take
\* one alternative of each, concatenated, the first varying slowest.
RECURSIVE Cartesian(_)

Cartesian(alts) ==
    IF alts = <<>> THEN << <<>> >>
    ELSE LET rest == Cartesian(Tail(alts))
         IN  Flatten([k \in 1..Len(alts[1]) |->
                         [n \in 1..Len(rest) |-> alts[1][k] \o rest[n]]])

\* The alternatives of the node at path, for a tree of plain leaves and
\* nested Specifications.
RECURSIVE Alt(_, _)

Alt(node, path) ==
    IF node.type # "Specification" THEN << <<[ref |-> path]>> >>
    ELSE LET alts == [i \in 1..Len(node.children) |->
                         Alt(node.children[i].val, Append(path, i))]
             combined == IF node.exclusive THEN Flatten(alts)
                         ELSE Cartesian(alts)
         IN  IF node.optional THEN Append(combined, <<>>) ELSE combined

\* The sum and the product of a list of numbers.
RECURSIVE Sum(_)

Sum(ns) == IF ns = <<>> THEN 0 ELSE ns[1] + Sum(Tail(ns))

\* The number of alternatives of a node of such a tree.
RECURSIVE AltCount(_)

AltCount(node) ==
    IF node.type # "Specification" THEN 1
    ELSE LET counts == [i \in 1..Len(node.children) |->
                           AltCount(node.children[i].val)]
         IN  (IF node.exclusive THEN Sum(counts) ELSE Product(counts))
               + (IF node.optional THEN 1 ELSE 0)

\* The leaves of a tree, in declaration order.
RECURSIVE Leaves(_, _)

Leaves(node, path) ==
    IF node.type # "Specification" THEN <<[ref |-> path]>>
    ELSE Flatten([i \in 1..Len(node.children) |->
                     Leaves(node.children[i].val, Append(path, i))])

\* No node of the tree is exclusive or optional.
RECURSIVE NoFlags(_)

NoFlags(node) ==
    node.type = "Specification" =>
       /\ ~node.exclusive
       /\ ~node.optional
       /\ \A i \in 1..Len(node.children) : NoFlags(node.children[i].val)

\* C11: for a Specification tree of plain leaf Domains and nested
\* Specifications, split() returns, children in declaration order, the
\* Cartesian product of the children's alternative lists at a
\* non-exclusive node and their concatenation at an exclusive node, plus
\* the empty configuration at an optional node: the number of
\* configurations is the product, respectively the sum, of the children's
\* counts, plus one if optional; a tree without flags yields one
\* configuration holding every leaf once, and an exclusive root of leaves
\* one singleton per leaf.
C11_SplitCombinesChildren ==
    (compiled # None /\ PlainTree(ValueOf(spec))) =>
       LET s == ValueOf(spec)
           result == ValueOf(compiled)
       IN  /\ result = Alt(s, <<>>)
           /\ Len(result) = AltCount(s)
           /\ NoFlags(s) => result = <<Leaves(s, <<>>)>>
           /\ (s.exclusive /\ ~s.optional
                 /\ \A i \in 1..Len(s.children) : PlainLeaf(s.children[i].val)) =>
                 result = [i \in 1..Len(s.children) |-> <<[ref |-> <<i>>]>>]

\* Two nested Specifications with two alternatives each under a
\* non-exclusive root have been compiled into four configurations.
C11_Witness ==
    /\ compiled # None
    /\ PlainTree(ValueOf(spec))
    /\ ~ValueOf(spec).exclusive
    /\ Len(ValueOf(spec).children) = 2
    /\ \A i \in 1..2 :
          /\ ValueOf(spec).children[i].val.type = "Specification"
          /\ Len(ValueOf(spec).children[i].val.children) > 0
    /\ ValueOf(spec).children[1].val.exclusive
    /\ ValueOf(spec).children[2].val.optional
    /\ Len(ValueOf(compiled)) >= 4

\* The paths of the Specification nodes of a tree.
RECURSIVE SpecificationPaths(_, _)

SpecificationPaths(node, path) ==
    IF node.type # "Specification" THEN {}
    ELSE {path} \cup UNION {SpecificationPaths(node.children[i].val, Append(path, i)) :
                               i \in 1..Len(node.children)}

\* The node at path as split reaches it from the root, renamed, together
\* with the root name split is called with on it.
RECURSIVE Reached(_, _, _)

Reached(self, root, path) ==
    IF path = <<>> THEN [self |-> self, root |-> root]
    ELSE LET val0 == self.children[path[1]].val
             val == [val0 EXCEPT !.name = Join(root, val0.name)]
         IN  Reached(val, val.name, Tail(path))

\* C12: at every Specification node whose optional flag is set, at every
\* nesting level, split returns exactly the list it returns for the same
\* node without the flag followed by one empty configuration as its last
\* element; a split() call on an optional root returns that list.
C12_OptionalAppendsOneEmpty ==
    [][splits' = splits + 1 =>
         /\ \A path \in SpecificationPaths(ValueOf(spec), <<>>) :
               LET at == Reached(ValueOf(spec), <<>>, path)
                   with == Specification_split([at.self EXCEPT !.optional = TRUE],
                                               path, at.root).domainsets
                   without == Specification_split([at.self EXCEPT !.optional = FALSE],
                                                  path, at.root).domainsets
               IN  /\ with = Append(without, <<>>)
                   /\ Len(with) = Len(without) + 1
         /\ ValueOf(spec).optional =>
               compiled' = Some(Append(
                   Specification_split([ValueOf(spec) EXCEPT !.optional = FALSE],
                                       <<>>, <<>>).domainsets, <<>>))]_vars

\* An optional root holding an optional nested Specification with a child
\* has been compiled: the last configuration is empty and the nested
\* node's own empty alternative is there as well.
C12_Witness ==
    /\ compiled # None
    /\ ValueOf(spec).optional
    /\ ~ValueOf(spec).exclusive
    /\ \E i \in 1..Len(ValueOf(spec).children) :
          /\ ValueOf(spec).children[i].val.type = "Specification"
          /\ ValueOf(spec).children[i].val.optional
          /\ Len(ValueOf(spec).children[i].val.children) > 0
    /\ Len(ValueOf(compiled)) >= 3
    /\ ValueOf(compiled)[Len(ValueOf(compiled))] = <<>>

\* The positions of the ExhaustiveDomains among the children of a node.
ExhaustiveChildren(node) ==
    {j \in 1..Len(node.children) : node.children[j].val.type = "ExhaustiveDomain"}

\* C13: an ExhaustiveDomain with m values, m = 0 included, that is a child
\* of a non-exclusive Specification nested one level below the root is
\* compiled into exactly m configurations per combination of the other
\* children: the i-th holds a ConstantDomain with the ExhaustiveDomain's
\* name and its i-th value, in declaration order, in the place of the
\* ExhaustiveDomain, and the configurations are otherwise identical.
C13_ExhaustiveYieldsOnePerValue ==
    (compiled # None /\ ~ValueOf(spec).optional
       /\ Len(ValueOf(spec).children) = 1) =>
       LET nested == ValueOf(spec).children[1].val
       IN  (/\ nested.type = "Specification"
            /\ ~nested.exclusive
            /\ ~nested.optional
            /\ Cardinality(ExhaustiveChildren(nested)) = 1
            /\ \A c \in 1..Len(nested.children) :
                  c \notin ExhaustiveChildren(nested) =>
                     PlainLeaf(nested.children[c].val)) =>
              LET j == CHOOSE c \in ExhaustiveChildren(nested) : TRUE
                  exhaustive == nested.children[j].val
              IN  ValueOf(compiled) =
                     [i \in 1..Len(exhaustive.domain) |->
                        [c \in 1..Len(nested.children) |->
                           IF c = j
                           THEN ConstantDomain_init(exhaustive.name,
                                                    exhaustive.domain[i])
                           ELSE [ref |-> <<1, c>>]]]

\* The names of the Domains of a configuration, read through the tree for
\* the children it holds.
NamesOf(config, tree) ==
    [n \in 1..Len(config) |->
        IF "ref" \in DOMAIN config[n]
        THEN Specification_getitem(tree, config[n].ref).name
        ELSE config[n].name]

\* No two places of a list hold the same value.
Distinct(list) ==
    \A m, n \in 1..Len(list) : m # n => list[m] # list[n]

\* C14: a RepeatedDomain flagged to split, with base unit u and R
\* repetitions, in a non-exclusive Specification compiles to exactly R
\* alternatives; the k-th, k = 1..R, consists of k copies of u whose names
\* carry pairwise distinct repetition-index suffixes.
C14_RepeatedYieldsOneToR ==
    (compiled # None /\ ~ValueOf(spec).exclusive /\ ~ValueOf(spec).optional
       /\ Len(ValueOf(spec).children) = 1
       /\ ValueOf(spec).children[1].val.type = "RepeatedDomain"
       /\ ValueOf(spec).children[1].val.should_split) =>
       LET repeated == ValueOf(spec).children[1].val
           result == ValueOf(compiled)
       IN  /\ Len(result) = repeated.repetitions
           /\ \A k \in 1..Len(result) :
                 /\ Len(result[k]) = k
                 /\ \A j \in 1..k :
                       /\ result[k][j].type = repeated.domain[1].type
                       /\ result[k][j].domain = repeated.domain[1].domain
                       /\ \E i \in 0..(repeated.repetitions - 1) :
                             result[k][j].name = repeated.name \o <<Suffix(i)>>
                 /\ Distinct(NamesOf(result[k], ValueOf(spec)))

\* The child keys on the path from the root to a node, joined by the
\* separator.
RECURSIVE KeyPath(_, _)

KeyPath(tree, path) ==
    IF path = <<>> THEN <<>>
    ELSE LET child == tree.children[path[1]]
             rest == KeyPath(child.val, Tail(path))
         IN  IF rest = <<>> THEN <<child.key>>
             ELSE <<child.key, ".">> \o rest

\* C15: in every configuration split returns, the name of each leaf Domain
\* of the tree is the child keys on the path from the root to the leaf
\* joined by the separator, and no two Domains of one configuration have
\* the same name.
C15_NamesAreKeyPaths ==
    compiled # None =>
       \A c \in 1..Len(ValueOf(compiled)) :
          LET config == ValueOf(compiled)[c]
          IN  /\ \A n \in 1..Len(config) :
                    "ref" \in DOMAIN config[n] =>
                       NamesOf(config, ValueOf(spec))[n]
                          = KeyPath(ValueOf(spec), config[n].ref)
              /\ Distinct(NamesOf(config, ValueOf(spec)))

\* C16: adding a child to a Specification or a Scope under a key the node
\* already holds raises a duplicate-name error and leaves the existing
\* child in place.
C16_DuplicateKeyRaises ==
    /\ spec # None =>
          \A i \in 1..Len(ValueOf(spec).children), val \in RootValues :
             LET r == Specification_setitem(ValueOf(spec),
                                            ValueOf(spec).children[i].key, val)
             IN  /\ r.outcome = "DuplicateDomainError"
                 /\ r.self.children[i] = ValueOf(spec).children[i]
    /\ \A k1, k2 \in {Keys[1], Keys[2]}, v1, v2 \in NestedValues :
          LET r == Scope_init(<<[key |-> k1, val |-> v1], [key |-> k2, val |-> v2]>>)
          IN  IF k1 = k2
              THEN r.outcome = "DuplicateDomainError"
              ELSE r.outcome = "return" /\ Len(r.children) = 2

\* The Trial objects SearchSpace.from_json builds from a persisted
\* SearchSpace when the Trial counter stands at firstTid.
LoadedTrials(obj, firstTid) ==
    [i \in 1..Len(obj.trials) |->
        Trial_setattr(
            Trial_from_json(firstTid + i - 1,
                            [obj.trials[i] EXCEPT
                                !.searchspace = Some(Len(spaceObjs) + 1)]),
            "dirty", FALSE)]

\* C17: for every SearchSpace with any Trial history, to_json followed by
\* from_json yields a SearchSpace with the same id, the same domain names
\* in the same order, as many Trials, in the same order with the same ids
\* and statuses, and equal complexity.
C17_JsonRoundTrip ==
    backend =>
       \A r \in 1..Len(searchspaces) :
          LET s == spaceObjs[searchspaces[r]]
              obj == SearchSpace_to_json(s, trialObjs, spaceObjs)
              loaded == SearchSpace_from_json(obj, Len(trialObjs))
              loadedTrials == LoadedTrials(obj, Len(trialObjs))
          IN  /\ loaded.id = s.id
              /\ Len(loaded.domains) = Len(s.domains)
              /\ \A i \in 1..Len(s.domains) :
                    loaded.domains[i].name = s.domains[i].name
              /\ SearchSpace_complexity(loaded) = SearchSpace_complexity(s)
              /\ Len(loaded.trials) = Len(s.trials)
              /\ \A i \in 1..Len(s.trials) :
                    /\ loadedTrials[i]["status"] = trialObjs[s.trials[i] + 1]["status"]
                    /\ loaded.trials[i] = s.trials[i]
                    /\ loadedTrials[i]["id"] = trialObjs[s.trials[i] + 1]["id"]

\* C18: every Trial that generate produced carries a hyperparameters vector
\* with exactly one entry per Domain of its own SearchSpace, in the order of
\* that SearchSpace's domains -- the i-th entry is a value of the i-th Domain
\* -- also when one Method object with its queue of pending vectors serves
\* several SearchSpaces.
C18_VectorAlignedWithOwnDomains ==
    method # None =>
       \A t \in 1..Len(trialObjs) :
          LET domains == spaceObjs[ValueOf(trialObjs[t]["_searchspace"])].domains
              hyperparameters == ValueOf(trialObjs[t]["hyperparameters"])
          IN  /\ Len(hyperparameters) = Len(domains)
              /\ \A i \in 1..Len(hyperparameters) :
                     hyperparameters[i].of = domains[i].name

\* The members of a SearchSpace's domains list, in its order.
Members(s) ==
    [i \in 1..Len(s.domains) |-> <<s.domains[i].name, s.domains[i].complexity>>]

SortedByName(s) ==
    \A i \in 1..Len(s.domains), j \in 1..Len(s.domains) :
       i < j => s.domains[i].name <= s.domains[j].name

\* The SearchSpace objects whose trials list a step changes.
TrialsChanged == {r \in 1..Len(spaceObjs) : spaceObjs'[r].trials # spaceObjs[r].trials}

\* C19: the domains of every SearchSpace are sorted ascending by name from
\* construction on, and no step of generate, register_result, sort_spaces or
\* optimum changes their members or their order; a trials list changes only
\* by the append of the Trial a generate call produced, to exactly one
\* SearchSpace, and register_result leaves every trials list as it is.
C19_DomainsFixedTrialsAppendOnly ==
    [][/\ Len(spaceObjs') = Len(spaceObjs)
       /\ \A r \in 1..Len(spaceObjs) :
             /\ SortedByName(spaceObjs[r])
             /\ Members(spaceObjs'[r]) = Members(spaceObjs[r])
             /\ r \in TrialsChanged =>
                   spaceObjs'[r].trials = Append(spaceObjs[r].trials, Len(trialObjs))
       /\ Cardinality(TrialsChanged) = Len(trialObjs') - Len(trialObjs)
       /\ Len(trialObjs') - Len(trialObjs) \in {0, 1}
       /\ TotalSubmissions' # TotalSubmissions => TrialsChanged = {}]_vars

\* Two Trials were appended to one SearchSpace with two Domains given out of
\* order, and one of them was registered.
C19_Witness ==
    \E r \in 1..Len(spaceObjs) :
       /\ Len(spaceObjs[r].domains) = 2
       /\ spaceObjs[r].trials = <<0, 1>>
       /\ trialObjs[1]["submissions"] > 0

\* C20: the dirty flag tracks unsaved change: the Trial a generate call
\* constructs and a Trial that register_result changed have dirty = TRUE, and
\* a Trial that SearchSpace.from_json rebuilds from the persisted state has
\* dirty = FALSE.
C20_DirtyTracksUnsavedChange ==
    backend =>
       /\ \A idx \in 1..Len(active) :
             LET r == GenerateCall(None, idx, FALSE)
             IN  r.trialObjs[Len(r.trialObjs)]["dirty"] = TRUE
       /\ \A ssid \in SpaceIds, trial_id \in TrialIds, in \in RegisterInputs :
             RegisterFinds(ssid, trial_id) =>
                RegisterCall(ssid, trial_id, in[1], in[2], in[3])
                   .trialObjs[trial_id + 1]["dirty"] = TRUE
       /\ \A r \in 1..Len(searchspaces) :
             LET obj == SearchSpace_to_json(spaceObjs[searchspaces[r]], trialObjs,
                                            spaceObjs)
                 loadedTrials == LoadedTrials(obj, Len(trialObjs))
             IN  \A i \in 1..Len(loadedTrials) : loadedTrials[i]["dirty"] = FALSE

\* C21: every single-trial register_result whose lookups succeed returns
\* normally, whatever the status of the Trial; it increments the submissions
\* of the named Trial by exactly 1, leaves the submissions of every other
\* Trial alone and returns the new count with the Trial's hyperparameters; a
\* new Trial starts at 0, so after k registrations its submissions is k.
C21_RegisterCountsSubmissions ==
    /\ \A idx \in 1..Len(active) :
          LET r == GenerateCall(None, idx, FALSE)
          IN  r.trialObjs[Len(r.trialObjs)]["submissions"] = 0
    /\ \A ssid \in SpaceIds, trial_id \in TrialIds, in \in RegisterInputs :
          RegisterFinds(ssid, trial_id) =>
             LET r == RegisterCall(ssid, trial_id, in[1], in[2], in[3])
                 t == trialObjs[trial_id + 1]
             IN  /\ r.outcome = "return"
                 /\ r.value = Some(<<t["submissions"] + 1, t["hyperparameters"]>>)
                 /\ Len(r.trialObjs) = Len(trialObjs)
                 /\ \A i \in 1..Len(trialObjs) :
                       r.trialObjs[i]["submissions"] =
                          trialObjs[i]["submissions"] + (IF i = trial_id + 1 THEN 1 ELSE 0)

\* A Trial that was registered once and is DONE or ERROR can be registered
\* again.
C21_Witness ==
    \E t \in 1..Len(trialObjs) :
       /\ trialObjs[t]["submissions"] = 1
       /\ trialObjs[t]["status"] \in {DONE, ERROR}
       /\ \E ssid \in SpaceIds : RegisterFinds(ssid, t - 1)

\* n successive single-trial calls register_result(ssid, trial_ids[i],
\* objectives[i], results[i]).
RegisterSingles(ssid, trial_ids, objectives, results) ==
    RegisterElements(Fields, ValueOf(FindSpace(ssid)), trial_ids, objectives,
                     results, None, TRUE, 1)

\* The batches of n >= 1 trial ids that register_result finds in ssid.
Batches(ssid) ==
    UNION {[1..n -> {t \in TrialIds : RegisterFinds(ssid, t)}] : n \in 1..MaxBatch}

\* C22: register_result(ssid, [t1..tn], [o1..on], [r1..rn]) returns without
\* raising and leaves every Trial and active as the n single-trial calls
\* register_result(ssid, ti, oi, ri) leave them, also when the DONE count of
\* the space reaches max_evals before the last element.
C22_BatchEqualsSingles ==
    \A ssid \in SpaceIds :
       \A trial_ids \in Batches(ssid) :
          \A in \in [1..Len(trial_ids) -> BatchInputs] :
             LET objectives == [i \in 1..Len(trial_ids) |-> in[i][1]]
                 results == [i \in 1..Len(trial_ids) |-> in[i][2]]
                 batch == RegisterBatchCall(ssid, trial_ids, objectives, results, None)
                 singles == RegisterSingles(ssid, trial_ids, objectives, results)
             IN  /\ batch.outcome = "return"
                 /\ batch.trialObjs = singles.trialObjs
                 /\ batch.active = singles.active

\* The batches of n >= 1 trial ids of which one is not in ssid.
BatchesWithUnknown(ssid) ==
    {trial_ids \in UNION {[1..n -> TrialIds] : n \in 1..MaxBatch} :
        \E i \in 1..Len(trial_ids) : ~RegisterFinds(ssid, trial_ids[i])}

\* C23: a batched register_result in which some trial id is not in the named
\* SearchSpace fails and changes no Trial, those listed before the unknown id
\* included, and leaves active as it is.
C23_BatchAllOrNothing ==
    \A ssid \in SpaceIds :
       FindSpace(ssid) # None =>
          \A trial_ids \in BatchesWithUnknown(ssid) :
             \A in \in [1..Len(trial_ids) -> BatchInputs] :
                LET batch == RegisterBatchCall(ssid, trial_ids,
                                               [i \in 1..Len(trial_ids) |-> in[i][1]],
                                               [i \in 1..Len(trial_ids) |-> in[i][2]],
                                               None)
                IN  /\ batch.outcome # "return"
                    /\ batch.trialObjs = trialObjs
                    /\ batch.active = active

\* C24: when the Method raises while generate draws from a SearchSpace, the
\* call raises, no Trial is appended to any SearchSpace, the registry and
\* active are unchanged, and a later generate on another SearchSpace returns
\* and leaves what it would without the failed call.
C24_MethodFailureIsContained ==
    method # None =>
       \A idx \in 1..Len(active) :
          LET failed == GenerateQueuedCall(ValueOf(method), idx)
          IN  failed.r.outcome # "return" =>
                 /\ failed.r.trialObjs = trialObjs
                 /\ \A r \in 1..Len(spaceObjs) :
                       failed.r.spaceObjs[r].trials = spaceObjs[r].trials
                 /\ failed.r.trials = trials
                 /\ failed.r.active = active
                 /\ \A other \in 1..Len(active) :
                       active[other] # active[idx] =>
                          GenerateQueuedCall(failed.method, other).r
                             = GenerateQueuedCall(ValueOf(method), other).r

\* Caller p found the space in active and at quota and went on to remove it.
AttemptsRemoval(p) ==
    LET c == ValueOf(threads).caller[p]
    IN  c.in_active /\ c.at_quota /\ (c.pc = "remove" \/ c.attempted)

\* Both callers, on Trials of the same SearchSpace, did so.
BothAttemptRemoval ==
    /\ ValueOf(threads).caller[1].ss # None
    /\ ValueOf(threads).caller[1].ss = ValueOf(threads).caller[2].ss
    /\ AttemptsRemoval(1)
    /\ AttemptsRemoval(2)

\* C25: when the two register_result calls on Trials of one SearchSpace are
\* serialized behind one lock, no state is reachable in which both callers
\* observed the space as active and at quota and both attempted the removal
\* (without the lock such a state is reachable).
C25_SerializedCallsRemoveOnce ==
    (threads # None /\ ValueOf(threads).lock) => ~BothAttemptRemoval

\* C26: the quota bounds the completed work: in every reachable state each
\* SearchSpace has at most max_evals DONE Trials, also when several of its
\* Trials were generated before any of their results was registered.
C26_DoneWithinQuota ==
    \A r \in 1..Len(spaceObjs) : DoneCountIn(spaceObjs[r], trialObjs) <= max_evals

\* C27: split does not change the Specification it compiles: a second
\* split() of the same Specification leaves the tree as it is and returns
\* as many configurations as the first, with the same leaf names.
C27_SecondSplitSameNames ==
    compiled # None =>
       LET first == ValueOf(compiled)
           second == Specification_split(ValueOf(spec), <<>>, <<>>)
       IN  /\ second.self = ValueOf(spec)
           /\ Len(second.domainsets) = Len(first)
           /\ \A c \in 1..Len(first) :
                 NamesOf(second.domainsets[c], second.self)
                    = NamesOf(first[c], ValueOf(spec))

\* C28: optimum() is total: with two or more SearchSpaces it returns a
\* Trial or None in every reachable state and never raises, also when an
\* earlier SearchSpace has Trials with objectives and a later one has none.
C28_OptimumIsTotal ==
    Len(searchspaces) >= 2 => OptimumCall.outcome = "return"

\* C29: on an FMin with a backend, also after load(), every SearchSpace in
\* active is one of the objects in searchspaces, so that generate() creates
\* Trials only in SearchSpaces that register_result looks up and save()
\* writes.
C29_ActiveAmongSearchspaces ==
    backend => \A i \in 1..Len(active) : InList(searchspaces, active[i])

\* The Trials of the current population of s all have an objective, or s has
\* no population yet.
PopulationComplete(s) ==
    s.population # None =>
       \A i \in 1..Len(ValueOf(s.population)) :
          trialObjs[ValueOf(s.population)[i] + 1]["objective"] # None

\* C30: a generate call on a PopulationSearchSpace that has a population
\* with a Trial whose objective is None returns the empty list, appends no
\* Trial, leaves population and generations unchanged and calls no Method;
\* a population is produced only when there is none yet or every Trial of
\* the current one has an objective, and a call that produces one calls the
\* Method once, increments generations by exactly 1 and appends exactly the
\* new population's Trials, which are new Trials of this space, to trials
\* and to the registry.
C30_PopulationOnlyWhenComplete ==
    \A idx \in 1..Len(active) :
       \A m \in MethodResults(spaceObjs[active[idx]]) :
          LET ss == active[idx]
              s == spaceObjs[ss]
              r == GeneratePopulationCall(None, idx, m)
              after == r.spaceObjs[ss]
              produced == r.outcome = "return" /\ after.population # s.population
          IN  /\ ~PopulationComplete(s) =>
                    /\ r.outcome = "return"
                    /\ r.value = Some(<<>>)
                    /\ r.method_calls = 0
                    /\ r.trialObjs = trialObjs
                    /\ r.trials = trials
                    /\ after.trials = s.trials
                    /\ after.population = s.population
                    /\ after.generations = s.generations
              /\ (after.generations # s.generations
                    \/ after.trials # s.trials
                    \/ after.population # s.population) =>
                    PopulationComplete(s) /\ r.outcome = "return"
              /\ (PopulationComplete(s) /\ r.outcome = "return") =>
                    LET new == ValueOf(r.value)
                    IN  /\ r.method_calls = 1
                        /\ after.generations = s.generations + 1
                        /\ after.population = Some(new)
                        /\ after.trials = s.trials \o new
                        /\ Len(new) = (IF m.is_list THEN Len(m.value) ELSE 1)
                        /\ Len(r.trialObjs) = Len(trialObjs) + Len(new)
                        /\ \A i \in 1..Len(trialObjs) : r.trialObjs[i] = trialObjs[i]
                        /\ \A i \in 1..Len(new) :
                              /\ new[i] = Len(trialObjs) + i - 1
                              /\ r.trialObjs[new[i] + 1]["objective"] = None
                        /\ r.trials = trials \cup {new[i] : i \in 1..Len(new)}
              /\ \A other \in 1..Len(spaceObjs) :
                    other # ss => r.spaceObjs[other] = spaceObjs[other]

\* A space produced a second population after every Trial of its first one
\* got an objective, and a Trial of the second has none yet, so that a
\* generate call on it produces nothing.
C30_Witness ==
    \E idx \in 1..Len(active) :
       LET s == spaceObjs[active[idx]]
       IN  /\ s.generations = 2
           /\ s.population # None
           /\ Len(ValueOf(s.population)) >= 1
           /\ Len(s.trials) > Len(ValueOf(s.population))
           /\ ~PopulationComplete(s)

====
